---- MODULE Spec2Model ----
(***************************************************************************)
(* State-machine model of the XARF v4 parser (xarf/parser.py) together     *)
(* with the schema registry, the schema validator and the report models    *)
(* it consults.                                                            *)
(*                                                                         *)
(* Seven callers are described, each by a specification of its own: Spec   *)
(* (v4 documents handed to validate and parse), LegacySpec (v3 documents   *)
(* handed to parse), RegistrySpec and ReadersSpec (the registry singleton  *)
(* used directly, by one caller and by two threads), MutationSpec (a       *)
(* caller that changes the values the registry returned), GeneratorSpec    *)
(* (generated reports handed to validate) and FieldsSpec (the registry's   *)
(* walk through the type schemas of bundles of any shape).                 *)
(*                                                                         *)
(* A caller holds one input document, edits it, and calls                  *)
(* XARFParser.validate / XARFParser.parse on one parser instance.  The     *)
(* parser's four diagnostic lists and the validator's type-schema cache    *)
(* are the program state; the outcome of the last call (the returned       *)
(* ValidationResult or report, or the exception that escaped) is recorded  *)
(* so that properties of what the caller observes can be stated.           *)
(*                                                                         *)
(* Python values are abstracted to string tokens.  A JSON document is a    *)
(* function from the modelled top-level keys to tokens; ABSENT marks a key *)
(* the dict does not contain.  Sets of strings are iterated in the order   *)
(* the schema lists them (Python fixes one order per process).             *)
(***************************************************************************)
EXTENDS Naturals, Sequences, FiniteSets, TLC

VARIABLES
    strict,                 \* XARFParser.strict
    use_schema_validation,  \* XARFParser.use_schema_validation
    schemas_loaded,         \* the schema bundle was found at construction
    errors,                 \* XARFParser.errors
    _validation_errors,     \* XARFParser._validation_errors
    _validation_warnings,   \* XARFParser._validation_warnings
    _validation_info,       \* XARFParser._validation_info
    _type_schemas,          \* SchemaValidator._type_schemas (cache keys)
    doc,                    \* the caller's current input
    edits,                  \* number of keys of doc the caller has edited
    outcome,                \* what the last parse/validate call did
    deprecations,           \* XARFv3DeprecationWarnings the last call emitted
    caught,                 \* the XARFValidationError the caller caught last
    bundle,                 \* the schema bundle on disk: found, missing, invalid
    _instance,              \* SchemaRegistry._instance (0 is None)
    constructed,            \* number of SchemaRegistry objects built so far
    held,                   \* the registry instance the caller holds
    caches,                 \* the *_cache attributes of that instance
    call,                   \* what the last registry call did
    threads,                \* concurrent readers of the instance: their frames
    type_files              \* the files of the bundle's types/ directory

vars == <<strict, use_schema_validation, schemas_loaded, errors,
          _validation_errors, _validation_warnings, _validation_info,
          _type_schemas, doc, edits, outcome, deprecations, caught, bundle, _instance,
          constructed, held, caches, call, threads, type_files>>

(***************************************************************************)
(* Bounds of the model.                                                    *)
(***************************************************************************)
MaxEdits == 2

(***************************************************************************)
(* Python value tokens.                                                    *)
(***************************************************************************)
ABSENT == "<absent>"        \* the key is not in the dict
NONE == "None"              \* Python None
EMPTY == ""                 \* the empty string
NUM == "#5"                 \* a JSON number (truthy, hashable, not a str)
LIST == "#['x']"            \* a non-empty JSON array (truthy, unhashable)
NONDICT == "#'text'"        \* a JSON string where an object is expected

\* A contact object is named by the sub-fields it holds.
ContactKeys(v) ==
    CASE v = "{org,contact,domain}" -> {"org", "contact", "domain"}
      [] v = "{contact,domain}" -> {"contact", "domain"}
      [] v = "{org,domain}" -> {"org", "domain"}
      [] v = "{org,contact}" -> {"org", "contact"}
      [] v = "{org,contact,type}" -> {"org", "contact", "type"}
      [] v = "{org}" -> {"org"}
      [] v = "{contact}" -> {"contact"}
      [] v = "{domain}" -> {"domain"}
      [] v = "{}" -> {}
      [] OTHER -> {}

ContactTokens ==
    {"{org,contact,domain}", "{contact,domain}", "{org,domain}",
     "{org,contact}", "{org,contact,type}", "{org}", "{contact}", "{domain}",
     "{}"}

FullContact == "{org,contact,domain}"

IsDict(v) == v \in ContactTokens
IsStr(v) == v \notin ({ABSENT, NONE, NUM, LIST} \cup ContactTokens)
Hashable(v) == v # LIST /\ ~IsDict(v)
Truthy(v) == v \notin {ABSENT, NONE, EMPTY, "{}"}

(***************************************************************************)
(* Documents.                                                              *)
(***************************************************************************)
Keys ==
    {"xarf_version", "report_id", "timestamp", "reporter", "sender",
     "source_identifier", "category", "type", "evidence_source", "protocol",
     "smtp_from", "destination_ip", "url", "compromise_evidence",
     "unknown_field"}

\* dict membership and dict.get on a decoded JSON object
IsObject(data) == data.kind = "object"
Has(data, k) == IsObject(data) /\ data.fields[k] # ABSENT
Get(data, k) == IF Has(data, k) THEN data.fields[k] ELSE NONE
GetOr(data, k, dflt) == IF Has(data, k) THEN data.fields[k] ELSE dflt
PresentKeys(data) == {k \in Keys : Has(data, k)}

(***************************************************************************)
(* The schema bundle (xarf/schemas/v4/xarf-core.json and types/*.json).    *)
(* The files are not part of the sources at hand; their content is taken   *)
(* from the format description and from what the tests state about them.   *)
(***************************************************************************)
CoreRequired ==
    <<"xarf_version", "report_id", "timestamp", "reporter", "sender",
      "source_identifier", "category", "type">>

CoreOptional ==
    <<"evidence_source", "source_port", "evidence", "tags", "confidence",
      "description", "legacy_version", "_internal">>

CoreRecommended == {"evidence_source", "source_port"}

CategoryEnum ==
    {"messaging", "connection", "content", "infrastructure", "copyright",
     "vulnerability", "reputation"}

ContactRequired == <<"org", "contact", "domain">>

EvidenceSourceExamples ==
    {"spamtrap", "honeypot", "user_report", "automated_scan",
     "vulnerability_scan"}

\* types/{category}-{type}.json, keyed as the registry keys them
TypeSchemaFiles ==
    {<<"messaging", "spam">>, <<"messaging", "bulk-messaging">>,
     <<"connection", "ddos">>, <<"connection", "port-scan">>,
     <<"connection", "login-attack">>, <<"content", "phishing">>,
     <<"content", "malware">>, <<"content", "fraud">>,
     <<"infrastructure", "botnet">>, <<"vulnerability", "cve">>}

\* The inline branch of a type schema: declared properties in order, the
\* required list, the properties required when protocol is smtp, and the
\* properties flagged x-recommended.
TypeSchema(key) ==
    CASE key = <<"messaging", "spam">> ->
           [props |-> <<"category", "type", "protocol", "smtp_from", "subject">>,
            required |-> <<"protocol">>, smtp_required |-> <<"smtp_from">>,
            recommended |-> {"subject"}]
      [] key = <<"connection", "ddos">> ->
           [props |-> <<"category", "type", "destination_ip", "protocol">>,
            required |-> <<"destination_ip", "protocol">>, smtp_required |-> <<>>,
            recommended |-> {}]
      [] key = <<"content", "phishing">> ->
           [props |-> <<"category", "type", "url">>,
            required |-> <<"url">>, smtp_required |-> <<>>,
            recommended |-> {}]
      [] key = <<"infrastructure", "botnet">> ->
           [props |-> <<"category", "type", "compromise_evidence">>,
            required |-> <<"compromise_evidence">>, smtp_required |-> <<>>,
            recommended |-> {}]
      [] OTHER ->
           [props |-> <<"category", "type">>,
            required |-> <<>>, smtp_required |-> <<>>, recommended |-> {}]

\* ^4\.[0-9]+\.[0-9]+$ on the version strings of the model
MatchesVersionPattern(v) == v \in {"4.0.0", "4.1.0"}

(***************************************************************************)
(* String helpers of the sources, on the strings of the model.             *)
(***************************************************************************)
\* type_name.replace("_", "-")
Hyphenate(t) ==
    CASE t = "bulk_messaging" -> "bulk-messaging"
      [] t = "port_scan" -> "port-scan"
      [] t = "login_attack" -> "login-attack"
      [] OTHER -> t

\* type_name.replace("-", "_")
Underscore(t) ==
    CASE t = "bulk-messaging" -> "bulk_messaging"
      [] t = "port-scan" -> "port_scan"
      [] t = "login-attack" -> "login_attack"
      [] OTHER -> t

\* datetime.fromisoformat(s.replace("Z", "+00:00")) succeeds
UTCNOW == "<utcnow>Z"       \* datetime.now(timezone.utc).isoformat(), +00:00 as Z

IsoParses(s) == s \in {"2024-01-15T10:30:00Z", "2024-01-15T10:30:00+00:00", UTCNOW}

Range(s) == {s[i] : i \in 1..Len(s)}

SelectSeqIn(s, S) == SelectSeq(s, LAMBDA x : x \in S)
SelectSeqNotIn(s, S) == SelectSeq(s, LAMBDA x : x \notin S)

(***************************************************************************)
(* SchemaRegistry (xarf/schema_registry.py).  `loaded` says whether        *)
(* _load_schemas found the bundle; without it _core_schema is None and     *)
(* _type_schemas is empty.                                                 *)
(***************************************************************************)
get_categories(loaded) == IF loaded THEN CategoryEnum ELSE {}

scanned_type_schemas(loaded) == IF loaded THEN TypeSchemaFiles ELSE {}

get_types_for_category(loaded, category) ==
    {Underscore(key[2]) : key \in {k \in scanned_type_schemas(loaded) : k[1] = category}}

is_valid_category(loaded, category) == category \in get_categories(loaded)

is_valid_type(loaded, category, type_name) ==
    type_name \in get_types_for_category(loaded, category)

get_evidence_sources(loaded) == IF loaded THEN EvidenceSourceExamples ELSE {}

get_required_fields(loaded) == IF loaded THEN CoreRequired ELSE <<>>

get_contact_required_fields(loaded) ==
    IF loaded /\ ContactRequired # <<>> THEN ContactRequired
    ELSE <<"org", "contact", "domain">>

get_core_property_names(loaded) ==
    IF loaded THEN Range(CoreRequired) \cup Range(CoreOptional) ELSE {}

\* the key under which the type schema is found, or NONE
get_type_schema(loaded, category, type_name) ==
    IF <<category, type_name>> \in scanned_type_schemas(loaded)
    THEN <<category, type_name>>
    ELSE IF <<category, Hyphenate(type_name)>> \in scanned_type_schemas(loaded)
         THEN <<category, Hyphenate(type_name)>>
         ELSE <<NONE, NONE>>

get_category_fields(loaded, category, type_name) ==
    LET key == get_type_schema(loaded, category, type_name)
    IN IF key = <<NONE, NONE>> THEN <<>>
       ELSE SelectSeqNotIn(TypeSchema(key).props,
                           get_core_property_names(loaded) \cup {"category", "type"})

\* the core properties that are not required, in the schema's order
get_optional_fields(loaded) ==
    SelectSeq(SelectSeqNotIn(CoreRequired \o CoreOptional,
                             Range(get_required_fields(loaded))),
              LAMBDA f : f \in get_core_property_names(loaded))

get_optional_field_info(loaded, category, type_name) ==
    LET core == [i \in 1..Len(get_optional_fields(loaded)) |->
                   [field |-> get_optional_fields(loaded)[i],
                    recommended |-> get_optional_fields(loaded)[i] \in CoreRecommended]]
        key == IF Truthy(category) /\ Truthy(type_name)
               THEN get_type_schema(loaded, category, type_name)
               ELSE <<NONE, NONE>>
        sch == TypeSchema(key)
        tnames == IF key = <<NONE, NONE>> THEN <<>>
                  ELSE SelectSeqNotIn(sch.props,
                         Range(sch.required) \cup get_core_property_names(loaded))
        typed == [i \in 1..Len(tnames) |->
                   [field |-> tnames[i], recommended |-> tnames[i] \in sch.recommended]]
    IN IF loaded THEN core \o typed ELSE <<>>

get_all_types(loaded) ==
    {<<key[1], Underscore(key[2])>> : key \in scanned_type_schemas(loaded)}

is_valid_evidence_source(loaded, source) == source \in get_evidence_sources(loaded)

\* the standard severities, whatever was loaded
get_severities(loaded) == {"low", "medium", "high", "critical"}

is_valid_severity(loaded, severity) == severity \in get_severities(loaded)

\* FieldMetadata of a core property, or None
get_field_metadata(loaded, field_name) ==
    IF ~loaded \/ field_name \notin get_core_property_names(loaded)
    THEN [kind |-> "none", value |-> NONE]
    ELSE [kind |-> "object",
          value |-> [required |-> field_name \in Range(get_required_fields(loaded)),
                     recommended |-> field_name \in CoreRecommended]]

is_loaded(loaded) == loaded

(***************************************************************************)
(* Diagnostics.  A message is its template and the text put into it.       *)
(***************************************************************************)
NoExc == "<none>"

Diag(f, text, arg, v) == [field |-> f, message |-> <<text, arg>>, value |-> v]

\* an entry of XARFParser.errors (a plain string in the sources)
ErrStr(text, arg, names) == [text |-> text, arg |-> arg, names |-> names]

\* the order in which the keys of a document are iterated (insertion order)
KeyOrder ==
    <<"xarf_version", "report_id", "timestamp", "reporter", "sender",
      "source_identifier", "category", "type", "evidence_source", "protocol",
      "smtp_from", "destination_ip", "url", "compromise_evidence",
      "unknown_field">>

(***************************************************************************)
(* The jsonschema engine applied to the bundle's schemas, shaped by        *)
(* SchemaValidator._convert_error / _format_error_message.  One `required` *)
(* error is raised per missing property, each quoting the whole list.      *)
(***************************************************************************)
ContactSchemaErrors(data, k) ==
    LET v == data.fields[k]
    IN IF v = ABSENT THEN <<>>
       ELSE IF ~IsDict(v)
            THEN <<Diag(k, "Expected type 'object', got", "str", v)>>
            ELSE [i \in 1..Len(SelectSeqNotIn(ContactRequired, ContactKeys(v))) |->
                    Diag(k, "Missing required field(s)", "org, contact, domain", v)]

CoreSchemaErrors(data) ==
    IF ~IsObject(data)
    THEN <<Diag("$root", "Expected type 'object', got", "list", "<array>")>>
    ELSE LET missing == SelectSeqNotIn(CoreRequired, PresentKeys(data))
             ver == data.fields["xarf_version"]
             cat == data.fields["category"]
             typ == data.fields["type"]
         IN  [i \in 1..Len(missing) |->
                 Diag("$root", "Missing required field(s)", "<core required>", "<document>")]
             \o (IF ver = ABSENT \/ MatchesVersionPattern(ver) THEN <<>>
                 ELSE <<Diag("xarf_version", "Value does not match pattern",
                             "^4\\.[0-9]+\\.[0-9]+$", ver)>>)
             \o ContactSchemaErrors(data, "reporter")
             \o ContactSchemaErrors(data, "sender")
             \o (IF cat = ABSENT \/ IsStr(cat) THEN <<>>
                 ELSE <<Diag("category", "Expected type 'string', got", "other", cat)>>)
             \o (IF cat = ABSENT \/ cat \in CategoryEnum THEN <<>>
                 ELSE <<Diag("category", "Value must be one of", "<categories>", cat)>>)
             \o (IF typ = ABSENT \/ IsStr(typ) THEN <<>>
                 ELSE <<Diag("type", "Expected type 'string', got", "other", typ)>>)

TypeSchemaErrors(key, data) ==
    LET sch == TypeSchema(key)
        missing == SelectSeqNotIn(sch.required, PresentKeys(data))
        smtp == IF Get(data, "protocol") = "smtp"
                THEN SelectSeqNotIn(sch.smtp_required, PresentKeys(data))
                ELSE <<>>
    IN  [i \in 1..Len(missing) |->
            Diag("$root", "Missing required field(s)", "<type required>", "<document>")]
        \o [i \in 1..Len(smtp) |->
            Diag("$root", "Missing required field(s)", "<smtp required>", "<document>")]

(***************************************************************************)
(* SchemaValidator (xarf/schema_validator.py).                             *)
(***************************************************************************)
\* [exc, key, cache]: the schema found (its file key) or <<NONE, NONE>>
_get_type_schema(loaded, cache, category, type_name) ==
    IF ~loaded
    THEN [exc |-> NoExc, key |-> <<NONE, NONE>>, cache |-> cache]
    ELSE IF <<category, type_name>> \in cache
    THEN [exc |-> NoExc, key |-> <<category, Hyphenate(type_name)>>, cache |-> cache]
    ELSE IF ~IsStr(type_name)
    THEN [exc |-> "AttributeError", key |-> <<NONE, NONE>>, cache |-> cache]
    ELSE IF <<category, Hyphenate(type_name)>> \notin TypeSchemaFiles
    THEN [exc |-> NoExc, key |-> <<NONE, NONE>>, cache |-> cache]
    ELSE [exc |-> NoExc, key |-> <<category, Hyphenate(type_name)>>,
          cache |-> cache \cup {<<category, type_name>>}]

_validate_against_core(loaded, report) ==
    IF ~loaded THEN <<>> ELSE CoreSchemaErrors(report)

\* [exc, errs, cache]
SchemaValidator_validate(loaded, cache, report) ==
    LET core == _validate_against_core(loaded, report)
    IN IF ~IsObject(report)
       THEN [exc |-> "AttributeError", errs |-> core, cache |-> cache]
       ELSE LET category == Get(report, "category")
                type_name == Get(report, "type")
            IN IF ~(Truthy(category) /\ Truthy(type_name))
               THEN [exc |-> NoExc, errs |-> core, cache |-> cache]
               ELSE LET got == _get_type_schema(loaded, cache, category, type_name)
                    IN IF got.exc # NoExc
                       THEN [exc |-> got.exc, errs |-> core, cache |-> cache]
                       ELSE [exc |-> NoExc,
                             errs |-> core \o (IF got.key = <<NONE, NONE>> THEN <<>>
                                               ELSE TypeSchemaErrors(got.key, report)),
                             cache |-> got.cache]

(***************************************************************************)
(* XARFParser (xarf/parser.py).  The methods work on a frame: the parser's *)
(* four lists, the validator's cache, and the exception in flight (NoExc   *)
(* while the call is running normally).  A method is skipped once an       *)
(* exception is in flight.                                                 *)
(***************************************************************************)
Frame(e, ve, vw, vi, c) ==
    [errors |-> e, verrs |-> ve, vwarns |-> vw, vinfo |-> vi, cache |-> c,
     exc |-> NoExc]

Raise(fr, e) == [fr EXCEPT !.exc = e]

\* faulty variants of _clear_state: one list family is left as it was
ClearErrorsOnly(fr) == [fr EXCEPT !.errors = <<>>]

ClearValidationOnly(fr) ==
    [fr EXCEPT !.verrs = <<>>, !.vwarns = <<>>, !.vinfo = <<>>]

_clear_state(fr) ==
    [fr EXCEPT !.errors = <<>>, !.verrs = <<>>, !.vwarns = <<>>, !.vinfo = <<>>]

\* f"{field_prefix}.{field_name}"
Dotted(prefix, name) ==
    CASE prefix = "reporter" /\ name = "org" -> "reporter.org"
      [] prefix = "reporter" /\ name = "contact" -> "reporter.contact"
      [] prefix = "reporter" /\ name = "domain" -> "reporter.domain"
      [] prefix = "sender" /\ name = "org" -> "sender.org"
      [] prefix = "sender" /\ name = "contact" -> "sender.contact"
      [] prefix = "sender" /\ name = "domain" -> "sender.domain"

_validate_required_fields(loaded, fr, data) ==
    IF fr.exc # NoExc THEN fr
    ELSE LET missing == SelectSeqNotIn(get_required_fields(loaded), PresentKeys(data))
         IN [fr EXCEPT !.verrs = @ \o [i \in 1..Len(missing) |->
                Diag(missing[i], "Missing required field", missing[i], NONE)]]

\* the errors _validate_contact_info appends for one contact object
_validate_contact_info(loaded, contact, field_prefix) ==
    LET missing == SelectSeqNotIn(get_contact_required_fields(loaded), ContactKeys(contact))
    IN [i \in 1..Len(missing) |->
          Diag(Dotted(field_prefix, missing[i]), "Missing required field",
               Dotted(field_prefix, missing[i]), NONE)]

_validate_formats(loaded, fr, data) ==
    IF fr.exc # NoExc THEN fr
    ELSE IF ~IsObject(data) THEN Raise(fr, "AttributeError")
    ELSE LET timestamp == Get(data, "timestamp")
             reporter == GetOr(data, "reporter", "{}")
             sender == GetOr(data, "sender", "{}")
         IN [fr EXCEPT !.verrs = @
               \o (IF Truthy(timestamp) /\ ~IsoParses(timestamp)
                   THEN <<Diag("timestamp", "Invalid timestamp format", timestamp, timestamp)>>
                   ELSE <<>>)
               \o (IF IsDict(reporter)
                   THEN _validate_contact_info(loaded, reporter, "reporter") ELSE <<>>)
               \o (IF IsDict(sender)
                   THEN _validate_contact_info(loaded, sender, "sender") ELSE <<>>)]

\* category check of _validate_values
ValuesCategory(loaded, fr, data) ==
    LET category == Get(data, "category")
    IN IF fr.exc # NoExc \/ ~Truthy(category) THEN fr
       ELSE IF ~Hashable(category) THEN Raise(fr, "TypeError")
       ELSE IF is_valid_category(loaded, category) THEN fr
       ELSE [fr EXCEPT !.verrs = Append(@,
               Diag("category", "Invalid category", category, category))]

\* type check of _validate_values
ValuesType(loaded, fr, data) ==
    LET category == Get(data, "category")
        report_type == Get(data, "type")
    IN IF fr.exc # NoExc \/ ~(Truthy(category) /\ Truthy(report_type)) THEN fr
       ELSE IF ~Hashable(report_type) THEN Raise(fr, "TypeError")
       ELSE IF is_valid_type(loaded, category, report_type) THEN fr
       ELSE [fr EXCEPT !.verrs = Append(@,
               Diag("type", "Invalid type for category", report_type, report_type))]

\* evidence_source check of _validate_values
ValuesEvidenceSource(loaded, fr, data) ==
    LET evidence_source == Get(data, "evidence_source")
        sources == get_evidence_sources(loaded)
    IN IF fr.exc # NoExc \/ ~Truthy(evidence_source) \/ sources = {} THEN fr
       ELSE IF ~Hashable(evidence_source) THEN Raise(fr, "TypeError")
       ELSE IF evidence_source \in sources THEN fr
       ELSE [fr EXCEPT !.vwarns = Append(@,
               Diag("evidence_source", "Unknown evidence_source", evidence_source,
                    evidence_source))]

_validate_values(loaded, fr, data) ==
    ValuesEvidenceSource(loaded, ValuesType(loaded, ValuesCategory(loaded, fr, data), data), data)

_validate_messaging(fr, data) ==
    IF Get(data, "protocol") = "smtp" /\ ~Truthy(Get(data, "smtp_from"))
    THEN [fr EXCEPT !.verrs = Append(@,
            Diag("smtp_from", "smtp_from required when protocol is smtp", "", NONE))]
    ELSE fr

_validate_connection(fr, data) ==
    IF ~Truthy(Get(data, "destination_ip"))
    THEN [fr EXCEPT !.vwarns = Append(@,
            Diag("destination_ip", "destination_ip recommended for connection reports",
                 "", NONE))]
    ELSE fr

_validate_content(fr, data) ==
    IF ~Truthy(Get(data, "url"))
    THEN [fr EXCEPT !.vwarns = Append(@,
            Diag("url", "url recommended for content reports", "", NONE))]
    ELSE fr

_validate_category_specific(fr, data) ==
    LET category == Get(data, "category")
        report_type == Get(data, "type")
    IN IF fr.exc # NoExc \/ ~Truthy(category) \/ ~Truthy(report_type) THEN fr
       ELSE IF category = "messaging" THEN _validate_messaging(fr, data)
       ELSE IF category = "connection" THEN _validate_connection(fr, data)
       ELSE IF category = "content" THEN _validate_content(fr, data)
       ELSE fr

\* SchemaRegistry.get_type_schema calls type_name.replace when the exact key
\* is not registered
get_type_schema_raises(loaded, category, type_name) ==
    <<category, type_name>> \notin scanned_type_schemas(loaded) /\ ~IsStr(type_name)

\* faulty variant of _collect_unknown_fields: the pass reports nothing
SkipUnknownFields(loaded, fr, data) == fr

_collect_unknown_fields(loaded, fr, data) ==
    LET category == Get(data, "category")
        report_type == Get(data, "type")
        typed == Truthy(category) /\ Truthy(report_type)
        known_fields ==
            get_core_property_names(loaded) \cup
            (IF typed THEN Range(get_category_fields(loaded, category, report_type)) ELSE {})
        unknown == SelectSeqIn(KeyOrder, PresentKeys(data) \ known_fields)
    IN IF fr.exc # NoExc THEN fr
       ELSE IF typed /\ get_type_schema_raises(loaded, category, report_type)
       THEN Raise(fr, "AttributeError")
       ELSE [fr EXCEPT !.vwarns = @ \o [i \in 1..Len(unknown) |->
               Diag(unknown[i], "Unknown field is not defined in the XARF schema",
                    unknown[i], data.fields[unknown[i]])]]

\* faulty variant of _collect_missing_optional_fields: the advisories are
\* filed as errors
MissingOptionalAsErrors(loaded, fr, data) ==
    [fr EXCEPT !.verrs = @ \o [i \in 1..Len(CoreOptional) |->
        Diag(CoreOptional[i], "OPTIONAL", CoreOptional[i], NONE)]]

_collect_missing_optional_fields(loaded, fr, data) ==
    LET category == Get(data, "category")
        type_name == Get(data, "type")
        optional_info == get_optional_field_info(loaded, category, type_name)
        missing == SelectSeq(optional_info,
                             LAMBDA fi : fi.field \notin Keys \/ ~Has(data, fi.field))
    IN IF fr.exc # NoExc THEN fr
       ELSE IF Truthy(category) /\ Truthy(type_name)
               /\ get_type_schema_raises(loaded, category, type_name)
       THEN Raise(fr, "AttributeError")
       ELSE [fr EXCEPT !.vinfo = @ \o [i \in 1..Len(missing) |->
               [field |-> missing[i].field,
                message |-> <<IF missing[i].recommended THEN "RECOMMENDED" ELSE "OPTIONAL",
                              missing[i].field>>]]]

RECURSIVE Dedup(_, _)
Dedup(es, seen) ==
    IF es = <<>> THEN <<>>
    ELSE LET key == <<Head(es).field, Head(es).message>>
         IN IF key \in seen THEN Dedup(Tail(es), seen)
            ELSE <<Head(es)>> \o Dedup(Tail(es), seen \cup {key})

\* faulty variant of _deduplicate_errors: the list is left as it was
KeepDuplicates(fr) == fr

_deduplicate_errors(fr) ==
    IF fr.exc # NoExc THEN fr ELSE [fr EXCEPT !.verrs = Dedup(@, {})]

(***************************************************************************)
(* What a call hands back to the caller.                                   *)
(*   kind "result": validate returned a ValidationResult                   *)
(*   kind "report": parse returned a report of class `variant`             *)
(*   kind "raised": exception `exc` escaped the call; exc_errors is the    *)
(*                  errors attribute of an XARFValidationError             *)
(***************************************************************************)
NoOutcome ==
    [kind |-> "none", exc |-> NoExc, valid |-> FALSE, errors |-> <<>>,
     warnings |-> <<>>, has_info |-> FALSE, info |-> <<>>, variant |-> NONE,
     exc_errors |-> <<>>]

Raised(e, errs) == [NoOutcome EXCEPT !.kind = "raised", !.exc = e, !.exc_errors = errs]

ValidationResult(valid, errs, warns) ==
    [NoOutcome EXCEPT !.kind = "result", !.valid = valid, !.errors = errs,
                      !.warnings = warns]

Report(variant) == [NoOutcome EXCEPT !.kind = "report", !.variant = variant]

\* An exception object in the caller's hands.  XARFValidationError.__init__
\* keeps `errors or []`: the list it was given when that list is non-empty
\* (shares_list), a list of its own otherwise.  raised_with is the content
\* of the list when the exception was raised.
NoException == [held |-> FALSE, raised_with |-> <<>>, shares_list |-> FALSE]

XARFValidationError(errors_arg) ==
    [held |-> TRUE, raised_with |-> errors_arg, shares_list |-> errors_arg # <<>>]

\* step 1 of validate: the schema pass
SchemaPass(loaded, use_schema, fr, data) ==
    IF fr.exc # NoExc \/ ~use_schema THEN fr
    ELSE LET r == SchemaValidator_validate(loaded, fr.cache, data)
         IN IF r.exc # NoExc THEN Raise([fr EXCEPT !.cache = r.cache], r.exc)
            ELSE [fr EXCEPT !.cache = r.cache, !.verrs = @ \o r.errs]

\* step 5 of validate: in strict mode warnings become errors
PromoteWarnings(fr, strict_arg) ==
    IF fr.exc # NoExc \/ ~strict_arg \/ fr.vwarns = <<>> THEN fr
    ELSE [fr EXCEPT !.verrs = @ \o fr.vwarns, !.vwarns = <<>>]

\* faulty variant of BuildResult: valid is taken from the warnings
ResultValidWithoutWarnings(fr, show_missing_optional) ==
    [ValidationResult(Len(fr.vwarns) = 0, fr.verrs, fr.vwarns)
       EXCEPT !.has_info = show_missing_optional,
              !.info = IF show_missing_optional THEN fr.vinfo ELSE <<>>]

\* the ValidationResult validate builds from the lists
BuildResult(fr, show_missing_optional) ==
    [ValidationResult(Len(fr.verrs) = 0, fr.verrs, fr.vwarns)
       EXCEPT !.has_info = show_missing_optional,
              !.info = IF show_missing_optional THEN fr.vinfo ELSE <<>>]

\* XARFParser.validate: [fr, out]
validate(loaded, use_schema, fr0, json_data, strict_arg, show_missing_optional) ==
    LET f0 == _clear_state(fr0)
    IN IF json_data.kind = "badtext"
       THEN [fr |-> f0,
             out |-> ValidationResult(FALSE,
                        <<Diag("$root", "Invalid JSON", "", NONE)>>, <<>>)]
       ELSE LET f1 == SchemaPass(loaded, use_schema, f0, json_data)
                f2 == _validate_required_fields(loaded, f1, json_data)
                f3 == _validate_formats(loaded, f2, json_data)
                f4 == _validate_values(loaded, f3, json_data)
                f5 == _validate_category_specific(f4, json_data)
                f6 == _collect_unknown_fields(loaded, f5, json_data)
                f7 == _deduplicate_errors(f6)
                f8 == PromoteWarnings(f7, strict_arg)
                f9 == IF show_missing_optional
                      THEN _collect_missing_optional_fields(loaded, f8, json_data)
                      ELSE f8
            IN IF f9.exc # NoExc
               THEN [fr |-> [f9 EXCEPT !.exc = NoExc], out |-> Raised(f9.exc, <<>>)]
               ELSE [fr |-> f9, out |-> BuildResult(f9, show_missing_optional)]

(***************************************************************************)
(* Report models (xarf/models.py): whether the pydantic constructor        *)
(* accepts the document.                                                   *)
(***************************************************************************)
OptionalStr(data, k) == ~Has(data, k) \/ IsStr(data.fields[k])

XARFReportAccepts(data) ==
    /\ \A k \in Range(CoreRequired) : Has(data, k)
    /\ IsStr(data.fields["xarf_version"])
    /\ MatchesVersionPattern(data.fields["xarf_version"])
    /\ IsStr(data.fields["report_id"])
    /\ IsStr(data.fields["timestamp"])
    /\ data.fields["reporter"] = FullContact
    /\ data.fields["sender"] = FullContact
    /\ IsStr(data.fields["source_identifier"])
    /\ IsStr(data.fields["category"])
    /\ IsStr(data.fields["type"])
    /\ OptionalStr(data, "evidence_source")

MessagingReportAccepts(data) ==
    XARFReportAccepts(data) /\ OptionalStr(data, "protocol") /\ OptionalStr(data, "smtp_from")

ConnectionReportAccepts(data) ==
    XARFReportAccepts(data) /\ OptionalStr(data, "destination_ip")
        /\ OptionalStr(data, "protocol")

ContentReportAccepts(data) ==
    XARFReportAccepts(data) /\ OptionalStr(data, "url")

(***************************************************************************)
(* Legacy format (xarf/v3_compat.py).  A v3 document is flattened: the     *)
(* nested objects ReporterInfo, Report, Source and AdditionalInfo are keys *)
(* whose value says whether the object is there, and their members are     *)
(* keys of their own.  Of the converted document the keys of Keys are      *)
(* kept, and its tags beside them (an empty sequence when the document     *)
(* has no tags key); legacy_version, _internal, evidence and the other     *)
(* optional extras, which no check of parse reads, are left out.           *)
(***************************************************************************)
V3DICT == "{...}"           \* a nested JSON object of a v3 document
UUID4 == "<uuid4>"          \* str(uuid.uuid4())

V3Containers == {"ReporterInfo", "Report", "Source", "AdditionalInfo"}

V3Keys ==
    {"Version", "ReporterInfo", "ReporterOrg", "ReporterOrgEmail",
     "ReporterContactEmail", "Report", "ReportClass", "ReportType", "Date",
     "Source", "IP", "DestinationIp", "URL", "AdditionalInfo", "Protocol",
     "SMTPFrom", "DetectionMethod", "BotnetName", "MalwareFamily"}

\* the nested object a v3 member lives in
V3Parent(k) ==
    CASE k \in {"ReporterOrg", "ReporterOrgEmail", "ReporterContactEmail"} -> "ReporterInfo"
      [] k \in {"ReportClass", "ReportType", "Date", "Source", "DestinationIp", "URL",
                "AdditionalInfo"} -> "Report"
      [] k = "IP" -> "Source"
      [] k \in {"Protocol", "SMTPFrom", "DetectionMethod", "BotnetName",
                "MalwareFamily"} -> "AdditionalInfo"
      [] OTHER -> NONE

\* Python's `key in data` on a decoded JSON value: dict membership on an
\* object, element membership on an array
In(k, data) ==
    CASE data.kind = "object" -> k \in DOMAIN data.fields /\ data.fields[k] # ABSENT
      [] data.kind = "array_version" -> k = "Version"
      [] OTHER -> FALSE

is_v3_report(data) == In("Version", data) /\ ~In("xarf_version", data)

\* str.lower on the legacy vocabulary of the model
Lower(s) ==
    CASE s = "Messaging" -> "messaging"
      [] s = "Activity" -> "activity"
      [] s = "Connection" -> "connection"
      [] s = "Content" -> "content"
      [] s = "Malware" -> "malware"
      [] s = "Infrastructure" -> "infrastructure"
      [] s = "Honeypot" -> "honeypot"
      [] s = "Manual Review" -> "manual review"
      [] s = "Port Scan" -> "port scan"
      [] s = "Vulnerability Scan" -> "vulnerability scan"
      [] s = "SpamTrap via honeypot" -> "spamtrap via honeypot"
      [] s = "User scan" -> "user scan"
      [] OTHER -> s

category_map(report_class) ==
    CASE report_class \in {"messaging", "activity"} -> "messaging"
      [] report_class \in {"connection", "content", "infrastructure", "copyright",
                           "vulnerability", "reputation"} -> report_class
      [] OTHER -> "other"

\* the keywords of the detection vocabulary that are substrings of s, letter
\* case counted
KeywordsIn(s) ==
    CASE s = "spamtrap" -> {"spamtrap"}
      [] s = "honeypot" -> {"honeypot"}
      [] s = "user_report" -> {"user"}
      [] s = "manual review" -> {"manual"}
      [] s = "port scan" -> {"scan"}
      [] s = "vulnerability scan" -> {"scan", "vuln"}
      [] s = "vuln-check" -> {"vuln"}
      [] s = "spamtrap via honeypot" -> {"spamtrap", "honeypot"}
      [] s = "SpamTrap via honeypot" -> {"honeypot"}
      [] s = "user scan" -> {"user", "scan"}
      [] s = "User scan" -> {"scan"}
      [] OTHER -> {}

\* `keyword in s`
Contains(s, keyword) == keyword \in KeywordsIn(s)

\* a faulty _map_evidence_source that matches the text as it is written
MapWithoutLower(v3_method) ==
    IF ~Truthy(v3_method) THEN "automated_scan"
    ELSE IF Contains(v3_method, "spamtrap") THEN "spamtrap"
    ELSE IF Contains(v3_method, "honeypot") THEN "honeypot"
    ELSE IF Contains(v3_method, "user") \/ Contains(v3_method, "manual") THEN "user_report"
    ELSE IF Contains(v3_method, "scan") THEN "automated_scan"
    ELSE IF Contains(v3_method, "vuln") THEN "vulnerability_scan"
    ELSE "automated_scan"

_map_evidence_source(v3_method) ==
    LET method_lower == Lower(v3_method)
    IN IF ~Truthy(v3_method) THEN "automated_scan"
       ELSE IF Contains(method_lower, "spamtrap") THEN "spamtrap"
       ELSE IF Contains(method_lower, "honeypot") THEN "honeypot"
       ELSE IF Contains(method_lower, "user") \/ Contains(method_lower, "manual")
            THEN "user_report"
       ELSE IF Contains(method_lower, "scan") THEN "automated_scan"
       ELSE IF Contains(method_lower, "vuln") THEN "vulnerability_scan"
       ELSE "automated_scan"

\* a tag f"{prefix}:{value}"
Tag(prefix, value) == <<prefix, value>>

\* _add_infrastructure_fields on the tags of v4_data, the two arguments being
\* the members of AdditionalInfo (ABSENT when `in` finds none)
_add_infrastructure_fields(tags, botnet_name, malware_family) ==
    LET with_botnet == IF botnet_name # ABSENT
                       THEN tags \o <<Tag("botnet", botnet_name)>> ELSE tags
    IN IF malware_family # ABSENT
       THEN with_botnet \o <<Tag("malware", malware_family)>> ELSE with_botnet

\* convert_v3_to_v4 after its warnings.warn: [exc, data, tags].  A .get or
\* .lower on a value of the wrong type raises AttributeError.
convert_v3_to_v4(v3_data) ==
    LET f == v3_data.fields
        \* container.get(k, dflt), the container itself fetched with .get(c, {})
        reached(k) ==
            \/ V3Parent(k) = NONE
            \/ /\ f[V3Parent(k)] = V3DICT
               /\ V3Parent(V3Parent(k)) = NONE \/ f[V3Parent(V3Parent(k))] = V3DICT
        sub(k, dflt) == IF reached(k) /\ f[k] # ABSENT THEN f[k] ELSE dflt
        bad_container ==
            \E c \in V3Containers : reached(c) /\ f[c] \notin {ABSENT, V3DICT}
        report_class == sub("ReportClass", EMPTY)
        report_type == sub("ReportType", EMPTY)
        category == category_map(Lower(report_class))
        contact ==
            IF Truthy(sub("ReporterOrgEmail", NONE)) THEN sub("ReporterOrgEmail", NONE)
            ELSE IF Truthy(sub("ReporterContactEmail", NONE))
                 THEN sub("ReporterContactEmail", NONE)
            ELSE "unknown@example.com"
        v4 == [k \in Keys |->
                 CASE k = "xarf_version" -> "4.0.0"
                   [] k = "report_id" -> UUID4
                   [] k = "timestamp" ->
                        IF Truthy(sub("Date", NONE)) THEN sub("Date", NONE) ELSE UTCNOW
                   [] k = "reporter" -> "{org,contact,type}"
                   [] k = "source_identifier" -> sub("IP", "0.0.0.0")
                   [] k = "category" -> category
                   [] k = "type" -> Lower(report_type)
                   [] k = "evidence_source" ->
                        _map_evidence_source(sub("DetectionMethod", NONE))
                   [] k = "protocol" /\ category = "messaging" -> sub("Protocol", "smtp")
                   [] k = "protocol" /\ category = "connection" -> sub("Protocol", "tcp")
                   [] k = "smtp_from" /\ category = "messaging" -> sub("SMTPFrom", ABSENT)
                   [] k = "destination_ip" /\ category = "connection" ->
                        sub("DestinationIp", "0.0.0.0")
                   [] k = "url" /\ category = "content" ->
                        IF Truthy(sub("URL", NONE)) THEN sub("URL", NONE)
                        ELSE "http://unknown"
                   [] OTHER -> ABSENT]
        \* v4_data["tags"] after the category-specific fields were added
        category_tags ==
            IF category = "infrastructure"
            THEN _add_infrastructure_fields(<<>>, sub("BotnetName", ABSENT),
                                            sub("MalwareFamily", ABSENT))
            ELSE <<>>
        \* the local list `tags`, and the assignment `if tags: v4_data["tags"] = tags`
        tags ==
            (IF Truthy(report_class) THEN <<Tag("legacy:category", report_class)>>
             ELSE <<>>)
            \o (IF Truthy(report_type) THEN <<Tag("legacy:type", report_type)>>
                ELSE <<>>)
    IN IF v3_data.kind # "object" \/ bad_container
          \/ ~IsStr(report_class) \/ ~IsStr(report_type)
       THEN [exc |-> "AttributeError", data |-> v3_data, tags |-> <<>>]
       ELSE [exc |-> NoExc,
             data |-> [kind |-> "object", base |-> v3_data.base, fields |-> v4],
             tags |-> IF tags # <<>> THEN tags ELSE category_tags]

(***************************************************************************)
(* XARFParser.parse and the structural pre-check.                          *)
(***************************************************************************)
SetNames(sq, present) == Range(sq) \ present

\* category/type part of validate_structure: [fr, ok]
_validate_category_type(loaded, fr, data) ==
    LET category == Get(data, "category")
        report_type == Get(data, "type")
        fail(text, arg) ==
            [fr |-> [fr EXCEPT !.errors = Append(@, ErrStr(text, arg, {}))], ok |-> FALSE]
    IN IF ~Truthy(category) THEN fail("Missing category field", "")
       ELSE IF ~Hashable(category) THEN [fr |-> Raise(fr, "TypeError"), ok |-> FALSE]
       ELSE IF ~is_valid_category(loaded, category) THEN fail("Invalid category", category)
       ELSE IF ~Truthy(report_type) THEN fail("Missing type field", "")
       ELSE IF ~Hashable(report_type) THEN [fr |-> Raise(fr, "TypeError"), ok |-> FALSE]
       ELSE IF ~is_valid_type(loaded, category, report_type)
            THEN fail("Invalid type for category", report_type)
       ELSE [fr |-> fr, ok |-> TRUE]

\* [fr, ok]: the first defect found ends the check
validate_structure(loaded, fr, data) ==
    LET required_fields == get_required_fields(loaded)
        contact_required == get_contact_required_fields(loaded)
        missing_fields == SetNames(required_fields, PresentKeys(data))
        reporter == GetOr(data, "reporter", "{}")
        sender == GetOr(data, "sender", "{}")
        fail(text, arg, names) ==
            [fr |-> [fr EXCEPT !.errors = Append(@, ErrStr(text, arg, names))], ok |-> FALSE]
    IN IF ~IsObject(data) THEN [fr |-> Raise(fr, "AttributeError"), ok |-> FALSE]
       ELSE IF missing_fields # {} THEN fail("Missing required fields", "", missing_fields)
       ELSE IF Get(data, "xarf_version") # "4.0.0"
            THEN fail("Unsupported XARF version", Get(data, "xarf_version"), {})
       ELSE IF ~IsDict(reporter) THEN fail("Reporter must be an object", "", {})
       ELSE IF SetNames(contact_required, ContactKeys(reporter)) # {}
            THEN fail("Missing reporter fields", "",
                      SetNames(contact_required, ContactKeys(reporter)))
       ELSE IF ~IsDict(sender) THEN fail("Sender must be an object", "", {})
       ELSE IF SetNames(contact_required, ContactKeys(sender)) # {}
            THEN fail("Missing sender fields", "",
                      SetNames(contact_required, ContactKeys(sender)))
       ELSE IF ~Has(data, "timestamp") THEN [fr |-> Raise(fr, "KeyError"), ok |-> FALSE]
       ELSE IF ~IsStr(data.fields["timestamp"]) \/ ~IsoParses(data.fields["timestamp"])
            THEN fail("Invalid timestamp format", Get(data, "timestamp"), {})
       ELSE _validate_category_type(loaded, fr, data)

\* the model class parse builds for a category the registry knows
VariantFor(category) ==
    CASE category = "messaging" -> "MessagingReport"
      [] category = "connection" -> "ConnectionReport"
      [] category = "content" -> "ContentReport"
      [] OTHER -> "XARFReport"

VariantAccepts(variant, data) ==
    CASE variant = "MessagingReport" -> MessagingReportAccepts(data)
      [] variant = "ConnectionReport" -> ConnectionReportAccepts(data)
      [] variant = "ContentReport" -> ContentReportAccepts(data)
      [] OTHER -> XARFReportAccepts(data)

\* faulty variant of Dispatch: a category the registry does not know is
\* refused in lenient mode too
DispatchKnownCategoriesOnly(loaded, strict_flag, fr, data) ==
    [fr |-> fr,
     out |-> IF /\ Get(data, "category") \in get_categories(loaded)
                /\ VariantAccepts(VariantFor(Get(data, "category")), data)
             THEN Report(VariantFor(Get(data, "category")))
             ELSE Raised("XARFParseError", <<>>)]

\* category dispatch and model construction of parse: [fr, out]
Dispatch(loaded, strict_flag, fr, data) ==
    LET report_category == Get(data, "category")
        probe == IF Truthy(report_category) THEN report_category ELSE ""
    IN IF ~Hashable(probe) THEN [fr |-> fr, out |-> Raised("TypeError", <<>>)]
       ELSE IF ~is_valid_category(loaded, probe)
       THEN IF strict_flag
            THEN [fr |-> fr, out |-> Raised("XARFValidationError", <<>>)]
            ELSE [fr |-> [fr EXCEPT !.errors =
                            Append(@, ErrStr("Invalid category, valid categories", report_category, {}))],
                  out |-> IF XARFReportAccepts(data) THEN Report("XARFReport")
                          ELSE Raised("pydantic.ValidationError", <<>>)]
       ELSE [fr |-> fr,
             out |-> IF VariantAccepts(VariantFor(report_category), data)
                     THEN Report(VariantFor(report_category))
                     ELSE Raised("XARFParseError", <<>>)]

\* parse from the structural pre-check on, on the decoded (and, for a
\* legacy document, converted) data: [fr, out]
ParseDecoded(loaded, strict_flag, f0, data) ==
    LET vs == validate_structure(loaded, f0, data)
    IN IF vs.fr.exc # NoExc
       THEN [fr |-> [vs.fr EXCEPT !.exc = NoExc], out |-> Raised(vs.fr.exc, <<>>)]
       ELSE IF ~vs.ok /\ strict_flag
       THEN [fr |-> vs.fr, out |-> Raised("XARFValidationError", vs.fr.errors)]
       ELSE Dispatch(loaded, strict_flag, vs.fr, data)

\* XARFParser.parse: [fr, out, deprecations]; deprecations counts the
\* warnings.warn calls of convert_v3_to_v4, its first statement
parse(loaded, strict_flag, fr0, json_data) ==
    LET f0 == _clear_state(fr0)
        legacy == json_data.kind # "badtext" /\ is_v3_report(json_data)
        conv == convert_v3_to_v4(json_data)
        r == IF json_data.kind = "badtext"
             THEN [fr |-> f0, out |-> Raised("XARFParseError", <<>>)]
             ELSE IF legacy /\ conv.exc # NoExc
             THEN [fr |-> f0, out |-> Raised("XARFParseError", <<>>)]
             ELSE ParseDecoded(loaded, strict_flag, f0,
                               IF legacy THEN conv.data ELSE json_data)
    IN [fr |-> r.fr, out |-> r.out, deprecations |-> IF legacy THEN 1 ELSE 0]

get_errors == errors
get_warnings == _validation_warnings

(***************************************************************************)
(* The caller's documents: one valid report per report model, and the      *)
(* edits that take a document away from it.                                *)
(***************************************************************************)
Bases == {"messaging", "connection", "content", "infrastructure"}

TemplateType(b) ==
    CASE b = "messaging" -> "spam"
      [] b = "connection" -> "ddos"
      [] b = "content" -> "phishing"
      [] b = "infrastructure" -> "botnet"

\* create_valid_report of the tests, per category (the infrastructure report
\* is the botnet report of the schema validator's tests)
Template(b) ==
    [k \in Keys |->
       CASE k = "xarf_version" -> "4.0.0"
         [] k = "report_id" -> "550e8400-e29b-41d4-a716-446655440000"
         [] k = "timestamp" -> "2024-01-15T10:30:00Z"
         [] k \in {"reporter", "sender"} -> FullContact
         [] k = "source_identifier" -> "192.0.2.1"
         [] k = "category" -> b
         [] k = "type" -> TemplateType(b)
         [] k = "protocol" /\ b = "messaging" -> "smtp"
         [] k = "protocol" /\ b = "connection" -> "tcp"
         [] k = "smtp_from" /\ b = "messaging" -> "spammer@example.com"
         [] k = "destination_ip" /\ b = "connection" -> "192.0.2.100"
         [] k = "url" /\ b = "content" -> "https://phishing.example.com/login"
         [] k = "compromise_evidence" /\ b = "infrastructure" -> "C2 communication detected"
         [] OTHER -> ABSENT]

Document(kind, b, fields) == [kind |-> kind, base |-> b, fields |-> fields]

NoDocument == Document("none", "none", [k \in Keys |-> ABSENT])

\* the values an edit may put in place of a key's template value
ReplaceValues(k) ==
    CASE k = "xarf_version" -> {"3.0.0", "4.1.0"}
      [] k = "timestamp" -> {"not-a-timestamp"}
      [] k = "reporter" -> {NONDICT}
      [] k = "category" -> {"bogus", LIST}
      [] k = "type" -> {"bogus", NUM}
      [] k = "evidence_source" -> {"weird"}
      [] k = "smtp_from" -> {EMPTY}
      [] k = "unknown_field" -> {"some value"}
      [] OTHER -> {}

\* the contact object left when one sub-field is removed from a full one
WithoutSub(sub) ==
    CASE sub = "org" -> "{contact,domain}"
      [] sub = "contact" -> "{org,domain}"
      [] sub = "domain" -> "{org,contact}"

\* The keys the caller edits.  Defects of the fields every report shares are
\* explored on the messaging report; the other reports get the edits of
\* category, type, their own fields, evidence_source and an unknown field.
EditKeys(b) ==
    IF b = "messaging" THEN Keys
    ELSE {"category", "type", "evidence_source", "protocol", "destination_ip",
          "url", "compromise_evidence", "unknown_field"}

\* The caller prepares a document before handing it to the parser: another
\* edit is allowed, and the key still has its template value.
Editable(k) ==
    /\ doc.kind = "object"
    /\ k \in EditKeys(doc.base)
    /\ outcome.op = "none"
    /\ edits < MaxEdits
    /\ doc.fields[k] = Template(doc.base)[k]

\* The record of a call: the operation, its arguments and input, what it
\* handed back, and `leftover`: the operation of an earlier call on another
\* input whose diagnostics the parser still held when this call began.
Called(op, strict_arg, show_missing_optional, input, leftover, out) ==
    [op |-> op, strict_arg |-> strict_arg,
     show_missing_optional |-> show_missing_optional, input |-> input,
     leftover |-> leftover, out |-> out]

Leftover ==
    IF /\ outcome.op # "none"
       /\ outcome.input # doc
       /\ \/ errors # <<>>
          \/ _validation_errors # <<>>
          \/ _validation_warnings # <<>>
          \/ _validation_info # <<>>
    THEN outcome.op
    ELSE "none"

ParserFrame ==
    Frame(errors, _validation_errors, _validation_warnings, _validation_info,
          _type_schemas)

(***************************************************************************)
(* The registry singleton as the parser's callers find it: built once when *)
(* xarf.schema_registry was imported, with the bundle in place.  The       *)
(* parser's queries are the pure operators above; its callers leave the    *)
(* singleton alone.                                                        *)
(***************************************************************************)
CacheNames ==
    {"_categories_cache", "_types_per_category_cache", "_evidence_sources_cache",
     "_severities_cache", "_required_fields_cache", "_contact_required_fields_cache"}

\* what a registry call hands back, tagged with its Python type
Value(kind, value) == [kind |-> kind, value |-> value]
NoValue == Value("none", NONE)

\* the caches as SchemaRegistry.__init__ leaves them
NoCaches == [c \in CacheNames |-> NoValue]

\* the record of a registry call: the operation, what it returned, the
\* instance the caller held before, whether reset_instance ran since the
\* caller's previous get_instance (pending: since its last one), and
\* whether the call constructed a SchemaRegistry
NoCall ==
    [op |-> "none", result |-> NoValue, prev |-> 0, after_reset |-> FALSE,
     pending_reset |-> FALSE, built |-> FALSE]

Threads == {1, 2}

\* the types/ directory as shipped: the type schemas of TypeSchema.  Only the
\* caller that studies other bundles looks at its files one by one.
ShippedTypeFiles == "shipped"

\* a reader's frame: where it stands, its query, the loop position of
\* _build_types_cache, and what its query returned
IdleThread == [pc |-> "idle", query |-> "none", cursor |-> 0, result |-> NoValue]

RegistryAtImport ==
    /\ bundle = "found"
    /\ _instance = 1
    /\ constructed = 1
    /\ held = 1
    /\ caches = NoCaches
    /\ call = NoCall
    /\ threads = [t \in Threads |-> IdleThread]
    /\ type_files = ShippedTypeFiles

RegistryUnchanged ==
    UNCHANGED <<type_files, bundle, _instance, constructed, held, caches, call, threads>>

(***************************************************************************)
(* Initial state: a parser as XARFParser.__init__ leaves it, with the      *)
(* schema bundle found, and the caller holding an unedited valid report.   *)
(***************************************************************************)
Init ==
    /\ strict \in BOOLEAN
    /\ use_schema_validation \in BOOLEAN
    /\ schemas_loaded = TRUE
    /\ errors = <<>>
    /\ _validation_errors = <<>>
    /\ _validation_warnings = <<>>
    /\ _validation_info = <<>>
    /\ _type_schemas = {}
    /\ doc \in {Document("object", b, Template(b)) : b \in Bases}
    /\ edits = 0
    /\ outcome = Called("none", FALSE, FALSE, NoDocument, "none", NoOutcome)
    /\ deprecations = 0
    /\ caught = NoException
    /\ RegistryAtImport

ParserUnchanged ==
    UNCHANGED <<strict, use_schema_validation, schemas_loaded, errors,
                _validation_errors, _validation_warnings, _validation_info,
                _type_schemas, outcome, deprecations, caught, bundle, _instance,
                constructed, held, caches, call, threads, type_files>>

\* the caller deletes a key from the document
RemoveKey(k) ==
    /\ Editable(k)
    /\ doc.fields[k] # ABSENT
    /\ doc' = [doc EXCEPT !.fields[k] = ABSENT]
    /\ edits' = edits + 1
    /\ ParserUnchanged

\* the caller replaces (or adds) the value of a key
SetValue(k, v) ==
    /\ Editable(k)
    /\ v \in ReplaceValues(k)
    /\ doc' = [doc EXCEPT !.fields[k] = v]
    /\ edits' = edits + 1
    /\ ParserUnchanged

\* the caller deletes one sub-field of reporter or sender
RemoveContactField(k, sub) ==
    /\ Editable(k)
    /\ doc' = [doc EXCEPT !.fields[k] = WithoutSub(sub)]
    /\ edits' = edits + 1
    /\ ParserUnchanged

\* the caller passes something that is not a JSON object: the text of a JSON
\* array, or text that is not JSON at all
ReplaceInput(kind) ==
    /\ doc.kind = "object"
    /\ outcome.op = "none"
    /\ edits < MaxEdits
    /\ doc' = [doc EXCEPT !.kind = kind]
    /\ edits' = edits + 1
    /\ ParserUnchanged

\* after a call the caller turns to a fresh valid report of the same kind
NextReport ==
    /\ outcome.op # "none"
    /\ doc # Document("object", doc.base, Template(doc.base))
    /\ doc' = Document("object", doc.base, Template(doc.base))
    /\ edits' = 0
    /\ ParserUnchanged

StoreFrame(fr) ==
    /\ errors' = fr.errors
    /\ _validation_errors' = fr.verrs
    /\ _validation_warnings' = fr.vwarns
    /\ _validation_info' = fr.vinfo
    /\ _type_schemas' = fr.cache

\* parser.validate(doc, strict=strict_arg, show_missing_optional=...)
Validate(strict_arg, show_missing_optional) ==
    LET r == validate(schemas_loaded, use_schema_validation, ParserFrame, doc,
                      strict_arg, show_missing_optional)
    IN /\ StoreFrame(r.fr)
       /\ outcome' = Called("validate", strict_arg, show_missing_optional, doc, Leftover,
                            r.out)
       /\ deprecations' = 0
       /\ UNCHANGED caught
       /\ RegistryUnchanged
       /\ UNCHANGED <<strict, use_schema_validation, schemas_loaded, doc, edits>>

\* parser.parse(doc)
Parse ==
    LET r == parse(schemas_loaded, strict, ParserFrame, doc)
    IN /\ StoreFrame(r.fr)
       /\ outcome' = Called("parse", FALSE, FALSE, doc, Leftover, r.out)
       /\ deprecations' = r.deprecations
       /\ caught' = IF r.out.exc = "XARFValidationError"
                    THEN XARFValidationError(r.out.exc_errors)
                    ELSE caught
       /\ RegistryUnchanged
       /\ UNCHANGED <<strict, use_schema_validation, schemas_loaded, doc, edits>>

Next ==
    \/ \E k \in Keys : RemoveKey(k)
    \/ \E k \in Keys : \E v \in ReplaceValues(k) : SetValue(k, v)
    \/ \E k \in {"reporter", "sender"} : \E sub \in Range(ContactRequired) :
          RemoveContactField(k, sub)
    \/ \E kind \in {"array", "badtext"} : ReplaceInput(kind)
    \/ NextReport
    \/ \E strict_arg \in BOOLEAN : \E show_missing_optional \in BOOLEAN :
          Validate(strict_arg, show_missing_optional)
    \/ Parse

Spec == Init /\ [][Next]_vars

(***************************************************************************)
(* Properties.                                                             *)
(***************************************************************************)
FreshFrame == Frame(<<>>, <<>>, <<>>, <<>>, {})

\* the last call was validate and it returned a ValidationResult
Returned == outcome.op = "validate" /\ outcome.out.kind = "result"

HasField(diags, f) == \E i \in 1..Len(diags) : diags[i].field = f

HasText(strs, text) == \E i \in 1..Len(strs) : strs[i].text = text

\* validate of d on a parser of this configuration that has seen no call
FreshValidate(d, strict_arg, show_missing_optional) ==
    validate(schemas_loaded, use_schema_validation, FreshFrame, d, strict_arg,
             show_missing_optional).out

IsValidDocument(d) ==
    FreshValidate(d, FALSE, FALSE).kind = "result" /\ FreshValidate(d, FALSE, FALSE).valid

\* C1: validate never raises: whatever the input and the arguments, the call
\* returns a ValidationResult.
ValidateNeverRaises == outcome.op = "validate" => outcome.out.kind = "result"

\* C2: in every ValidationResult validate returns, valid is true exactly
\* when the errors list (promoted warnings included) is empty.
ValidIffNoErrors == Returned => (outcome.out.valid <=> outcome.out.errors = <<>>)

\* a strict validate whose only error is a promoted warning
ValidIffNoErrorsWitness ==
    /\ Returned
    /\ outcome.strict_arg
    /\ ~outcome.out.valid
    /\ Len(outcome.out.errors) = 1
    /\ outcome.out.errors[1].field = "unknown_field"

\* C3: a document that lacks exactly one of the eight core required fields
\* validates to valid = false with an error whose field is the missing key;
\* an otherwise valid document whose sender or reporter lacks one of
\* org/contact/domain validates to valid = false with an error whose field is
\* the dotted path of the missing sub-field.
MissingFieldReported ==
    outcome.op = "validate" =>
      /\ \A k \in Range(CoreRequired) :
            (IsObject(outcome.input)
               /\ {r \in Range(CoreRequired) : ~Has(outcome.input, r)} = {k})
            => /\ Returned
               /\ ~outcome.out.valid
               /\ HasField(outcome.out.errors, k)
      /\ \A k \in {"reporter", "sender"} : \A sub \in Range(ContactRequired) :
            (IsObject(outcome.input)
               /\ outcome.input.fields[k] = WithoutSub(sub)
               /\ IsValidDocument([outcome.input EXCEPT !.fields[k] = FullContact]))
            => /\ Returned
               /\ ~outcome.out.valid
               /\ HasField(outcome.out.errors, Dotted(k, sub))

\* the input of the last call with the unknown key taken out again
WithoutUnknownKey == [outcome.input EXCEPT !.fields["unknown_field"] = ABSENT]

StrictPromotesWarnings ==
    LET lax == FreshValidate(outcome.input, FALSE, outcome.show_missing_optional)
    IN (outcome.op = "validate" /\ outcome.strict_arg)
       => /\ Returned
          /\ lax.kind = "result"
          /\ outcome.out.warnings = <<>>
          /\ outcome.out.errors = lax.errors \o lax.warnings

\* C6: what validate hands back depends only on the document, the arguments
\* and the construction flags: it is what a parser that has seen no call
\* hands back.
ValidateIgnoresHistory ==
    outcome.op = "validate" =>
      outcome.out = FreshValidate(outcome.input, outcome.strict_arg,
                                  outcome.show_missing_optional)

\* a valid report validated while the parser held another input's diagnostics
ValidateIgnoresHistoryWitness ==
    /\ Returned
    /\ outcome.leftover # "none"
    /\ outcome.out.valid
    /\ outcome.out.warnings = <<>>

\* the parser's lists after the last call, had the parser seen no call before
FreshLists ==
    IF outcome.op = "parse"
    THEN parse(schemas_loaded, strict, FreshFrame, outcome.input).fr
    ELSE validate(schemas_loaded, use_schema_validation, FreshFrame, outcome.input,
                  outcome.strict_arg, outcome.show_missing_optional).fr

\* C7: every parse and validate call clears the diagnostic state first:
\* get_errors() and get_warnings() (and the other lists) hold only what the
\* most recent call produced.
DiagnosticsOfLastCallOnly ==
    outcome.op # "none" =>
      /\ get_errors = FreshLists.errors
      /\ get_warnings = FreshLists.vwarns
      /\ _validation_errors = FreshLists.verrs
      /\ _validation_info = FreshLists.vinfo

\* a successful lenient parse after a parse that recorded errors
DiagnosticsOfLastCallOnlyWitness ==
    /\ outcome.op = "parse"
    /\ ~strict
    /\ outcome.leftover = "parse"
    /\ outcome.out.kind = "report"
    /\ get_errors = <<>>

\* the last call was parse on a lenient parser, on a JSON object
LenientParse == outcome.op = "parse" /\ ~strict /\ IsObject(outcome.input)

StructurallySound(d) ==
    /\ \A k \in Range(CoreRequired) : Has(d, k)
    /\ d.fields["xarf_version"] = "4.0.0"
    /\ d.fields["reporter"] = FullContact
    /\ d.fields["sender"] = FullContact
    /\ IsoParses(d.fields["timestamp"])
    /\ d.fields["category"] \in CategoryEnum
    /\ <<d.fields["category"], Hyphenate(d.fields["type"])>> \in TypeSchemaFiles

StrictParseReturnsOnlyValid ==
    (outcome.op = "parse" /\ strict /\ outcome.out.kind = "report")
    => IsValidDocument(outcome.input)

\* C10: the XARFValidationError of a failed strict parse lists every defect
\* of the document: an unsupported xarf_version, an unparseable timestamp and
\* an invalid type each have their entry.
StrictFailureListsEveryDefect ==
    (outcome.op = "parse" /\ strict /\ outcome.out.exc = "XARFValidationError")
    => /\ (Has(outcome.input, "xarf_version")
             /\ outcome.input.fields["xarf_version"] # "4.0.0")
          => HasText(outcome.out.exc_errors, "Unsupported XARF version")
       /\ (Has(outcome.input, "timestamp")
             /\ ~IsoParses(outcome.input.fields["timestamp"]))
          => HasText(outcome.out.exc_errors, "Invalid timestamp format")
       /\ (outcome.input.fields["category"] \in CategoryEnum
             /\ Has(outcome.input, "type")
             /\ ~is_valid_type(schemas_loaded, outcome.input.fields["category"],
                               outcome.input.fields["type"]))
          => HasText(outcome.out.exc_errors, "Invalid type for category")

(***************************************************************************)
(* The inputs on which the calls go wrong.                                 *)
(***************************************************************************)
\* validate of a report whose type is a JSON number raises AttributeError
ValidateRaisesOnNumericType ==
    /\ outcome.op = "validate"
    /\ outcome.input.kind = "object"
    /\ outcome.input.fields = [Template("messaging") EXCEPT !["type"] = NUM]
    /\ outcome.out.kind = "raised"
    /\ outcome.out.exc = "AttributeError"

\* validate of a report without report_id whose type is a JSON number raises
\* instead of reporting the missing field
MissingFieldLostInRaise ==
    /\ outcome.op = "validate"
    /\ outcome.input.kind = "object"
    /\ outcome.input.fields =
         [Template("messaging") EXCEPT !["type"] = NUM, !["report_id"] = ABSENT]
    /\ outcome.out.kind = "raised"

\* validate(strict=True) of a report whose category is a JSON array raises
StrictValidateRaises ==
    /\ outcome.op = "validate"
    /\ outcome.strict_arg
    /\ outcome.input.kind = "object"
    /\ outcome.input.fields = [Template("messaging") EXCEPT !["category"] = LIST]
    /\ outcome.out.kind = "raised"
    /\ outcome.out.exc = "TypeError"

\* strict parse returns a MessagingReport for an smtp report without
\* smtp_from, which validate finds invalid
StrictParseReturnsInvalid ==
    /\ outcome.op = "parse"
    /\ strict
    /\ outcome.input.fields = [Template("messaging") EXCEPT !["smtp_from"] = ABSENT]
    /\ outcome.out.kind = "report"
    /\ outcome.out.variant = "MessagingReport"
    /\ ~FreshValidate(outcome.input, FALSE, FALSE).valid
    /\ HasField(FreshValidate(outcome.input, FALSE, FALSE).errors, "smtp_from")

\* strict parse of a report with an unsupported version and an unparseable
\* timestamp raises with the version error alone
StrictFailureListsFirstDefectOnly ==
    /\ outcome.op = "parse"
    /\ strict
    /\ outcome.input.fields =
         [Template("messaging") EXCEPT !["xarf_version"] = "3.0.0",
                                       !["timestamp"] = "not-a-timestamp"]
    /\ outcome.out.exc = "XARFValidationError"
    /\ Len(outcome.out.exc_errors) = 1
    /\ outcome.out.exc_errors[1].text = "Unsupported XARF version"

(***************************************************************************)
(* Model construction inside parse.                                        *)
(***************************************************************************)
\* the last call was a parse that got as far as building a report model:
\* the pre-check did not raise, and the category test let the call through
ConstructsModel ==
    LET d == outcome.input
        vs == validate_structure(schemas_loaded, _clear_state(FreshFrame), d)
        probe == IF Truthy(Get(d, "category")) THEN Get(d, "category") ELSE ""
    IN /\ outcome.op = "parse"
       /\ IsObject(d)
       /\ vs.fr.exc = NoExc
       /\ vs.ok \/ ~strict
       /\ Hashable(probe)
       /\ is_valid_category(schemas_loaded, probe) \/ ~strict

\* the model class the call builds: the category's, or the base shape
BuiltVariant ==
    IF Get(outcome.input, "category") \in get_categories(schemas_loaded)
    THEN VariantFor(Get(outcome.input, "category"))
    ELSE "XARFReport"

\* C11: whenever the report model refuses the document inside parse, on any
\* dispatch path, the caller sees XARFParseError and no lower-level exception.
ModelFailureIsParseError ==
    (ConstructsModel /\ ~VariantAccepts(BuiltVariant, outcome.input))
    => /\ outcome.out.kind = "raised"
       /\ outcome.out.exc = "XARFParseError"

\* lenient parse of a report without category: the base model's own
\* validation error reaches the caller
ModelFailureEscapes ==
    /\ ConstructsModel
    /\ ~strict
    /\ outcome.input.fields = [Template("messaging") EXCEPT !["category"] = ABSENT]
    /\ outcome.out.kind = "raised"
    /\ outcome.out.exc = "pydantic.ValidationError"

(***************************************************************************)
(* A second caller: legacy v3 documents handed to parse.  The caller       *)
(* starts from one of the v3 reports of the compatibility tests, edits it  *)
(* and parses it.                                                          *)
(***************************************************************************)
LegacyBases == {"v3-spam", "v3-ddos", "v3-phishing", "v3-botnet"}

\* the v3 reports of TestV3ParserIntegration, and an infrastructure report
\* that names a botnet and a malware family
LegacyTemplate(b) ==
    [k \in Keys \cup V3Keys |->
       CASE k = "Version" -> "3.0.0"
         [] k \in V3Containers -> V3DICT
         [] k = "ReporterOrg" -> "Spam Filter"
         [] k = "ReporterOrgEmail" -> "abuse@filter.example"
         [] k = "ReportClass" ->
              (CASE b = "v3-spam" -> "Messaging"
                 [] b = "v3-ddos" -> "Connection"
                 [] b = "v3-phishing" -> "Content"
                 [] b = "v3-botnet" -> "Infrastructure")
         [] k = "ReportType" ->
              (CASE b = "v3-spam" -> "spam"
                 [] b = "v3-ddos" -> "ddos"
                 [] b = "v3-phishing" -> "phishing"
                 [] b = "v3-botnet" -> "botnet")
         [] k = "Date" -> "2024-01-15T10:30:00Z"
         [] k = "IP" -> "192.0.2.100"
         [] k = "DestinationIp" /\ b = "v3-ddos" -> "198.51.100.10"
         [] k = "URL" /\ b = "v3-phishing" -> "http://fake-bank.example.com"
         [] k = "Protocol" /\ b = "v3-spam" -> "smtp"
         [] k = "Protocol" /\ b = "v3-ddos" -> "tcp"
         [] k = "SMTPFrom" /\ b = "v3-spam" -> "spam@bad.example"
         [] k = "DetectionMethod" ->
              (CASE b = "v3-spam" -> "spamtrap"
                 [] b = "v3-ddos" -> "automated"
                 [] b = "v3-phishing" -> "user_report"
                 [] b = "v3-botnet" -> "honeypot")
         [] k = "BotnetName" /\ b = "v3-botnet" -> "Mirai"
         [] k = "MalwareFamily" /\ b = "v3-botnet" -> "mirai-variant"
         [] OTHER -> ABSENT]

LegacyDocument(b) == [kind |-> "object", base |-> b, fields |-> LegacyTemplate(b)]

\* the values an edit may put in place of (or add to) a key of a v3 report
LegacyValues(k) ==
    CASE k = "xarf_version" -> {"4.0.0"}
      [] k = "ReportClass" -> {"Activity", "Weird", NUM}
      [] k = "ReportType" -> {"Malware"}
      [] k = "Report" -> {NONDICT}
      [] k = "DetectionMethod" ->
           {EMPTY, "Honeypot", "Manual Review", "Port Scan", "Vulnerability Scan",
            "vuln-check", "SpamTrap via honeypot", "User scan"}
      [] OTHER -> {}

LegacyEditable(k) ==
    /\ doc.kind = "object"
    /\ outcome.op = "none"
    /\ edits < MaxEdits
    /\ doc.fields[k] = LegacyTemplate(doc.base)[k]

LegacyInit ==
    /\ strict \in BOOLEAN
    /\ use_schema_validation = TRUE
    /\ schemas_loaded = TRUE
    /\ errors = <<>>
    /\ _validation_errors = <<>>
    /\ _validation_warnings = <<>>
    /\ _validation_info = <<>>
    /\ _type_schemas = {}
    /\ doc \in {LegacyDocument(b) : b \in LegacyBases}
    /\ edits = 0
    /\ outcome = Called("none", FALSE, FALSE, NoDocument, "none", NoOutcome)
    /\ deprecations = 0
    /\ caught = NoException
    /\ RegistryAtImport

\* the caller deletes a key of the v3 report
RemoveLegacyKey(k) ==
    /\ LegacyEditable(k)
    /\ doc.fields[k] # ABSENT
    /\ doc' = [doc EXCEPT !.fields[k] = ABSENT]
    /\ edits' = edits + 1
    /\ ParserUnchanged

\* the caller replaces the value of a key, or adds xarf_version
SetLegacyValue(k, v) ==
    /\ LegacyEditable(k)
    /\ v \in LegacyValues(k)
    /\ doc' = [doc EXCEPT !.fields[k] = v]
    /\ edits' = edits + 1
    /\ ParserUnchanged

\* the caller passes the JSON array ["Version"] instead of an object
PassVersionArray ==
    /\ doc.kind = "object"
    /\ outcome.op = "none"
    /\ edits < MaxEdits
    /\ doc' = [doc EXCEPT !.kind = "array_version"]
    /\ edits' = edits + 1
    /\ ParserUnchanged

\* after a call the caller turns to a fresh v3 report of the same kind
NextLegacyReport ==
    /\ outcome.op # "none"
    /\ doc # LegacyDocument(doc.base)
    /\ doc' = LegacyDocument(doc.base)
    /\ edits' = 0
    /\ ParserUnchanged

LegacyNext ==
    \/ \E k \in V3Keys : RemoveLegacyKey(k)
    \/ \E k \in V3Keys \cup {"xarf_version"} : \E v \in LegacyValues(k) :
          SetLegacyValue(k, v)
    \/ PassVersionArray
    \/ NextLegacyReport
    \/ Parse

LegacySpec == LegacyInit /\ [][LegacyNext]_vars

\* the last call was parse
Parsed == outcome.op = "parse"

\* the decoded input of the last call has a top-level Version key and no
\* xarf_version key
HasLegacyFingerprint ==
    /\ IsObject(outcome.input)
    /\ outcome.input.fields["Version"] # ABSENT
    /\ outcome.input.fields["xarf_version"] = ABSENT

\* what the last call hands back when the converter is run on its input
\* before the pre-check
OutcomeOfConverted ==
    IF convert_v3_to_v4(outcome.input).exc # NoExc
    THEN Raised("XARFParseError", <<>>)
    ELSE ParseDecoded(schemas_loaded, strict, _clear_state(FreshFrame),
                      convert_v3_to_v4(outcome.input).data).out

\* C12: parse runs the legacy converter exactly when the decoded document
\* has a top-level Version key and no xarf_version key, once, before the
\* structural pre-check, and then emits one deprecation signal; a document
\* without that fingerprint is checked as it is and no signal is emitted.
ConvertsExactlyLegacy ==
    Parsed =>
      IF HasLegacyFingerprint
      THEN deprecations = 1 /\ outcome.out = OutcomeOfConverted
      ELSE /\ deprecations = 0
           /\ outcome.out = ParseDecoded(schemas_loaded, strict, _clear_state(FreshFrame),
                                         outcome.input).out

\* the JSON array ["Version"] is taken for a legacy document: the converter
\* runs on it, emits the deprecation signal and fails
ArrayTakenForLegacy ==
    /\ Parsed
    /\ outcome.input.kind = "array_version"
    /\ deprecations = 1
    /\ outcome.out.exc = "XARFParseError"

\* the input of the last call is a v3 report of class Messaging, Connection
\* or Content that names a reporter org and email
LegacyReportOfKnownClass ==
    /\ HasLegacyFingerprint
    /\ \A c \in V3Containers : outcome.input.fields[c] = V3DICT
    /\ outcome.input.fields["ReportClass"] \in {"Messaging", "Connection", "Content"}
    /\ IsStr(outcome.input.fields["ReportType"])
    /\ outcome.input.fields["ReporterOrg"] # ABSENT
    /\ outcome.input.fields["ReporterOrgEmail"] # ABSENT

\* C13: lenient parse of a v3 report of class Messaging, Connection or
\* Content with reporter org and email returns the report variant of the
\* mapped category, carrying the mapped fields, and leaves get_errors() empty.
LegacyParseReturnsMappedReport ==
    (Parsed /\ ~strict /\ LegacyReportOfKnownClass)
    => LET v4 == convert_v3_to_v4(outcome.input).data.fields
       IN /\ outcome.out.kind = "report"
          /\ outcome.out.variant = VariantFor(Lower(outcome.input.fields["ReportClass"]))
          /\ v4["category"] = Lower(outcome.input.fields["ReportClass"])
          /\ v4["smtp_from"] = IF v4["category"] = "messaging"
                               THEN outcome.input.fields["SMTPFrom"] ELSE ABSENT
          /\ v4["destination_ip"] = IF v4["category"] = "connection"
                                    THEN GetOr(outcome.input, "DestinationIp", "0.0.0.0")
                                    ELSE ABSENT
          /\ get_errors = <<>>

\* lenient parse of the v3 spam report of the tests: the converted document
\* has no sender, the pre-check records it and the model refuses the document
LegacyParseFails ==
    /\ Parsed
    /\ ~strict
    /\ outcome.input = LegacyDocument("v3-spam")
    /\ outcome.out.kind = "raised"
    /\ outcome.out.exc = "XARFParseError"
    /\ Len(get_errors) = 1
    /\ get_errors[1].text = "Missing required fields"
    /\ get_errors[1].names = {"sender"}

(***************************************************************************)
(* A third caller: the registry singleton used directly.  One caller       *)
(* fetches the singleton, resets it and queries the instance it holds;     *)
(* the bundle on disk may change while no singleton exists.                *)
(***************************************************************************)
MaxInstances == 3

\* SchemaRegistry._load_schemas: whether _core_schema is set afterwards.
\* A missing directory and an unparseable xarf-core.json both end in
\* XARFSchemaError, which is swallowed before any type schema is scanned.
_load_schemas(b) == b = "found"

\* a faulty get_instance that builds a registry on every call
AlwaysConstruct(inst, n) == [_instance |-> n + 1, constructed |-> n + 1, built |-> TRUE]

\* SchemaRegistry.get_instance on class attribute inst, n registries built
get_instance(inst, n) ==
    IF inst = 0
    THEN [_instance |-> n + 1, constructed |-> n + 1, built |-> TRUE]
    ELSE [_instance |-> inst, constructed |-> n, built |-> FALSE]

reset_instance(inst, n) == [_instance |-> 0, constructed |-> n, built |-> FALSE]

\* the module-level name schema_registry that parser.py and generator.py
\* import: bound once, when the module is imported, to the registry built
\* then (the first one)
schema_registry == 1

\* the arguments the caller queries with
QueryCategory == "messaging"
QueryType == "spam"
QueryField == "category"
QuerySeverity == "high"
QuerySource == "spamtrap"

RegistryQueries ==
    {"get_categories", "get_types_for_category", "get_all_types",
     "is_valid_category", "is_valid_type", "get_evidence_sources",
     "is_valid_evidence_source", "get_severities", "is_valid_severity",
     "get_required_fields", "get_contact_required_fields", "get_field_metadata",
     "get_core_property_names", "get_type_schema", "get_category_fields",
     "get_optional_fields", "get_optional_field_info", "is_loaded"}

\* `if self._x_cache is not None: return it`, else compute, store, return
Cached(c, name, computed) ==
    IF c[name].kind # "none" THEN [result |-> c[name], caches |-> c]
    ELSE [result |-> computed, caches |-> [c EXCEPT ![name] = computed]]

\* a query that goes through another one: the caches that one leaves, and
\* the result made from what it returned
Via(r, result) == [result |-> result, caches |-> r.caches]

\* the dict category -> set of types made of (category, type) pairs
TypesDict(pairs) ==
    [category \in {p[1] : p \in pairs} |->
       {p[2] : p \in {x \in pairs : x[1] = category}}]

\* dict.get(category, set())
TypesOf(dict, category) == IF category \in DOMAIN dict THEN dict[category] ELSE {}

\* one query on an instance with the given caches: [result, caches]
registry_query(q, loaded, c) ==
    LET cats == Cached(c, "_categories_cache", Value("set", get_categories(loaded)))
        types == Cached(c, "_types_per_category_cache", Value("dict", TypesDict(get_all_types(loaded))))
        sources == Cached(c, "_evidence_sources_cache",
                          Value("set", get_evidence_sources(loaded)))
        sevs == Cached(c, "_severities_cache", Value("set", get_severities(loaded)))
        req == Cached(c, "_required_fields_cache",
                      Value("set", Range(get_required_fields(loaded))))
        creq == Cached(c, "_contact_required_fields_cache",
                       Value("set", Range(get_contact_required_fields(loaded))))
        meta == get_field_metadata(loaded, QueryField)
        key == get_type_schema(loaded, QueryCategory, QueryType)
    IN CASE q = "get_categories" -> cats
         [] q = "is_valid_category" ->
              Via(cats, Value("bool", QueryCategory \in cats.result.value))
         [] q = "get_types_for_category" ->
              Via(types, Value("set", TypesOf(types.result.value, QueryCategory)))
         [] q = "get_all_types" -> types
         [] q = "is_valid_type" ->
              Via(types, Value("bool", QueryType \in TypesOf(types.result.value,
                                                              QueryCategory)))
         [] q = "get_evidence_sources" -> sources
         [] q = "is_valid_evidence_source" ->
              Via(sources, Value("bool", QuerySource \in sources.result.value))
         [] q = "get_severities" -> sevs
         [] q = "is_valid_severity" ->
              Via(sevs, Value("bool", QuerySeverity \in sevs.result.value))
         [] q = "get_required_fields" -> req
         [] q = "get_contact_required_fields" -> creq
         [] q = "get_field_metadata" ->
              IF meta.kind = "none" THEN [result |-> meta, caches |-> c]
              ELSE Via(req, meta)
         [] q = "get_core_property_names" ->
              [result |-> Value("set", get_core_property_names(loaded)), caches |-> c]
         [] q = "get_type_schema" ->
              [result |-> IF key = <<NONE, NONE>> THEN NoValue ELSE Value("object", key),
               caches |-> c]
         [] q = "get_category_fields" ->
              [result |-> Value("list", get_category_fields(loaded, QueryCategory,
                                                            QueryType)),
               caches |-> c]
         [] q = "get_optional_fields" ->
              Via(req, Value("set", Range(get_optional_fields(loaded))))
         [] q = "get_optional_field_info" ->
              Via(req, Value("list", get_optional_field_info(loaded, QueryCategory,
                                                             QueryType)))
         [] q = "is_loaded" -> [result |-> Value("bool", is_loaded(loaded)), caches |-> c]

ParserIdle ==
    /\ strict = FALSE
    /\ use_schema_validation = TRUE
    /\ errors = <<>>
    /\ _validation_errors = <<>>
    /\ _validation_warnings = <<>>
    /\ _validation_info = <<>>
    /\ _type_schemas = {}
    /\ doc = NoDocument
    /\ edits = 0
    /\ outcome = Called("none", FALSE, FALSE, NoDocument, "none", NoOutcome)
    /\ deprecations = 0
    /\ caught = NoException

ParserUntouched ==
    UNCHANGED <<strict, use_schema_validation, errors, _validation_errors,
                _validation_warnings, _validation_info, _type_schemas, doc, edits,
                outcome, deprecations, caught>>

\* after `import xarf.schema_registry`: the module-level singleton exists,
\* built from whatever bundle was on disk
RegistryInit ==
    /\ ParserIdle
    /\ bundle \in {"found", "missing", "invalid"}
    /\ schemas_loaded = _load_schemas(bundle)
    /\ _instance = 1
    /\ constructed = 1
    /\ held = 1
    /\ caches = NoCaches
    /\ call = NoCall
    /\ threads = [t \in Threads |-> IdleThread]
    /\ type_files = ShippedTypeFiles

\* SchemaRegistry.get_instance()
GetInstance ==
    LET r == get_instance(_instance, constructed)
    IN /\ r.constructed <= MaxInstances
       /\ _instance' = r._instance
       /\ constructed' = r.constructed
       /\ held' = r._instance
       /\ schemas_loaded' = IF r.built THEN _load_schemas(bundle) ELSE schemas_loaded
       /\ caches' = IF r.built THEN NoCaches ELSE caches
       /\ call' = [op |-> "get_instance", result |-> Value("instance", r._instance),
                   prev |-> held, after_reset |-> call.pending_reset,
                   pending_reset |-> FALSE, built |-> r.built]
       /\ UNCHANGED <<type_files, bundle, threads>>
       /\ ParserUntouched

\* SchemaRegistry.reset_instance()
ResetInstance ==
    LET r == reset_instance(_instance, constructed)
    IN /\ _instance' = r._instance
       /\ constructed' = r.constructed
       /\ call' = [op |-> "reset_instance", result |-> NoValue, prev |-> held,
                   after_reset |-> FALSE, pending_reset |-> TRUE, built |-> r.built]
       /\ UNCHANGED <<type_files, bundle, held, schemas_loaded, caches, threads>>
       /\ ParserUntouched

\* the bundle on disk is removed, damaged or restored while no singleton exists
BundleBecomes(b) ==
    /\ _instance = 0
    /\ b # bundle
    /\ bundle' = b
    /\ UNCHANGED <<type_files, _instance, constructed, held, schemas_loaded, caches, call,
                   threads>>
    /\ ParserUntouched

\* the caller queries the singleton it holds
Query(q) ==
    LET r == registry_query(q, schemas_loaded, caches)
    IN /\ held = _instance
       /\ caches' = r.caches
       /\ call' = [op |-> q, result |-> r.result, prev |-> held, after_reset |-> FALSE,
                   pending_reset |-> call.pending_reset, built |-> FALSE]
       /\ UNCHANGED <<type_files, bundle, _instance, constructed, held, schemas_loaded, threads>>
       /\ ParserUntouched

RegistryNext ==
    \/ GetInstance
    \/ ResetInstance
    \/ \E b \in {"found", "missing", "invalid"} : BundleBecomes(b)
    \/ \E q \in RegistryQueries : Query(q)

RegistrySpec == RegistryInit /\ [][RegistryNext]_vars

\* C14: two get_instance() calls with no reset between them return the same
\* instance; the first get_instance() after a reset returns a newly built
\* instance that is not the one held before; reset_instance() builds nothing.
SingletonLifecycle ==
    /\ (call.op = "get_instance" /\ ~call.after_reset)
         => call.result.value = call.prev /\ ~call.built
    /\ (call.op = "get_instance" /\ call.after_reset)
         => call.result.value # call.prev /\ call.built
    /\ call.op = "reset_instance" => ~call.built /\ held = call.prev

\* a get_instance() after a reset that built the third registry
SingletonLifecycleWitness ==
    /\ call.op = "get_instance"
    /\ call.after_reset
    /\ call.built
    /\ call.prev = 2
    /\ call.result.value = 3

\* an empty or false result
Empty(v) ==
    CASE v.kind = "set" -> v.value = {}
      [] v.kind = "dict" -> DOMAIN v.value = {}
      [] v.kind = "list" -> v.value = <<>>
      [] v.kind = "bool" -> ~v.value
      [] v.kind = "none" -> TRUE
      [] OTHER -> FALSE

\* C16: when the bundle cannot be located or parsed, constructing the
\* registry does not raise, is_loaded() is false, and every query returns an
\* empty or false result.
DegradedQueriesEmpty ==
    bundle # "found" =>
      /\ (call.op = "get_instance" /\ call.built)
            => call.result.kind = "instance" /\ ~schemas_loaded
      /\ call.op \in RegistryQueries => Empty(call.result)

\* without the bundle get_severities() still returns the four severities
DegradedSeverities ==
    /\ bundle = "missing"
    /\ ~schemas_loaded
    /\ call.op = "get_severities"
    /\ call.result.value = {"low", "medium", "high", "critical"}

(***************************************************************************)
(* Concurrent readers.  Two threads share the singleton, built with the    *)
(* bundle in place and not yet queried, and each issues one query.  A      *)
(* thread runs get_types_for_category / _build_types_cache statement by    *)
(* statement; the interpreter may switch threads between any two of them.  *)
(***************************************************************************)
\* the keys of SchemaRegistry._type_schemas in insertion order: the type
\* schema files sorted by name
TypeSchemaOrder ==
    <<<<"connection", "ddos">>, <<"connection", "login-attack">>,
      <<"connection", "port-scan">>, <<"content", "fraud">>,
      <<"content", "malware">>, <<"content", "phishing">>,
      <<"infrastructure", "botnet">>, <<"messaging", "bulk-messaging">>,
      <<"messaging", "spam">>, <<"vulnerability", "cve">>>>

ReaderQueries ==
    {"get_types_for_category", "is_valid_type", "get_all_types", "get_categories"}

TypesCache == caches["_types_per_category_cache"]

ReadersInit ==
    /\ ParserIdle
    /\ bundle = "found"
    /\ schemas_loaded = _load_schemas(bundle)
    /\ _instance = 1
    /\ constructed = 1
    /\ held = 1
    /\ caches = NoCaches
    /\ call = NoCall
    /\ threads = [t \in Threads |-> IdleThread]
    /\ type_files = ShippedTypeFiles

ReaderFrame ==
    /\ UNCHANGED <<type_files, bundle, schemas_loaded, _instance, constructed, held, call>>
    /\ ParserUntouched

\* thread t calls query q on the shared instance
Begin(t, q) ==
    /\ threads[t].pc = "idle"
    /\ threads' = [threads EXCEPT ![t].pc = "check", ![t].query = q]
    /\ UNCHANGED caches
    /\ ReaderFrame

\* `if self._types_per_category_cache is None:` (or the categories cache)
CheckCache(t) ==
    LET name == IF threads[t].query = "get_categories" THEN "_categories_cache"
                ELSE "_types_per_category_cache"
    IN /\ threads[t].pc = "check"
       /\ threads' = [threads EXCEPT ![t].pc =
                        IF caches[name].kind # "none" THEN "return"
                        ELSE IF name = "_categories_cache" THEN "compute" ELSE "build"]
       /\ UNCHANGED caches
       /\ ReaderFrame

\* get_categories: the set is made locally, then stored and returned
StoreCategories(t) ==
    /\ threads[t].pc = "compute"
    /\ caches' = [caches EXCEPT !["_categories_cache"] =
                    Value("set", get_categories(schemas_loaded))]
    /\ threads' = [threads EXCEPT ![t].pc = "done",
                                  ![t].result = Value("set", get_categories(schemas_loaded))]
    /\ ReaderFrame

\* _build_types_cache: `self._types_per_category_cache = {}`
BuildReset(t) ==
    /\ threads[t].pc = "build"
    /\ caches' = [caches EXCEPT !["_types_per_category_cache"] = Value("dict", <<>>)]
    /\ threads' = [threads EXCEPT ![t].pc = "ensure", ![t].cursor = 1]
    /\ ReaderFrame

\* `if category not in self._types_per_category_cache: ...[category] = set()`
\* for the key under the cursor; past the last key the loop ends
BuildEnsure(t) ==
    /\ threads[t].pc = "ensure"
    /\ IF threads[t].cursor > Len(TypeSchemaOrder)
       THEN /\ threads' = [threads EXCEPT ![t].pc = "return"]
            /\ UNCHANGED caches
       ELSE LET category == TypeSchemaOrder[threads[t].cursor][1]
                dict == TypesCache.value
            IN /\ caches' = [caches EXCEPT !["_types_per_category_cache"] =
                    Value("dict", [c \in DOMAIN dict \cup {category} |->
                                     IF c \in DOMAIN dict THEN dict[c] ELSE {}])]
               /\ threads' = [threads EXCEPT ![t].pc = "add"]
    /\ ReaderFrame

\* `self._types_per_category_cache[category].add(normalized_type)`: KeyError
\* when another thread has replaced the dict since the key was ensured
BuildAdd(t) ==
    LET key == TypeSchemaOrder[threads[t].cursor]
        dict == TypesCache.value
    IN /\ threads[t].pc = "add"
       /\ IF key[1] \in DOMAIN dict
          THEN /\ caches' = [caches EXCEPT !["_types_per_category_cache"] =
                    Value("dict", [dict EXCEPT ![key[1]] = @ \cup {Underscore(key[2])}])]
               /\ threads' = [threads EXCEPT ![t].pc = "ensure", ![t].cursor = @ + 1]
          ELSE /\ threads' = [threads EXCEPT ![t].pc = "done",
                                             ![t].result = Value("raised", "KeyError")]
               /\ UNCHANGED caches
       /\ ReaderFrame

\* the return statement of the query, on the cache as it is now
Return(t) ==
    LET q == threads[t].query
        r == IF q = "get_categories" THEN caches["_categories_cache"]
             ELSE IF q = "get_all_types" THEN TypesCache
             ELSE IF q = "get_types_for_category"
                  THEN Value("set", TypesOf(TypesCache.value, QueryCategory))
             ELSE Value("bool", QueryType \in TypesOf(TypesCache.value, QueryCategory))
    IN /\ threads[t].pc = "return"
       /\ threads' = [threads EXCEPT ![t].pc = "done", ![t].result = r]
       /\ UNCHANGED caches
       /\ ReaderFrame

ReadersNext ==
    \E t \in Threads :
       \/ \E q \in ReaderQueries : Begin(t, q)
       \/ CheckCache(t)
       \/ StoreCategories(t)
       \/ BuildReset(t)
       \/ BuildEnsure(t)
       \/ BuildAdd(t)
       \/ Return(t)

ReadersSpec == ReadersInit /\ [][ReadersNext]_vars

\* the answer a single caller gets for query q on a fresh instance
SequentialAnswer(q) == registry_query(q, schemas_loaded, NoCaches).result

\* C15: under every interleaving of two readers issuing their first queries
\* on the shared instance, each query returns what a single sequential
\* caller would get.
ReadersGetSequentialAnswers ==
    \A t \in Threads :
       threads[t].pc = "done" => threads[t].result = SequentialAnswer(threads[t].query)

\* a reader is told that messaging has no types: it found the cache another
\* reader had just begun to fill
ReaderSeesEmptyTypes ==
    \E t \in Threads :
       /\ threads[t].pc = "done"
       /\ threads[t].query = "get_types_for_category"
       /\ threads[t].result = Value("set", {})

(***************************************************************************)
(* The schema validator on its own.                                        *)
(***************************************************************************)
\* the last call was validate with the schema pass on, on a JSON object:
\* SchemaValidator.validate was handed that object
SchemaValidatorCalled ==
    outcome.op = "validate" /\ use_schema_validation /\ IsObject(outcome.input)

\* what a SchemaValidator with an empty cache does with the object
SchemaValidatorOutcome == SchemaValidator_validate(schemas_loaded, {}, outcome.input)

\* C17: SchemaValidator.validate never throws for a JSON object, whatever
\* its category and type values are, and a type schema that does not exist
\* contributes no errors.
SchemaValidatorNeverThrows ==
    SchemaValidatorCalled =>
      /\ SchemaValidatorOutcome.exc = NoExc
      /\ get_type_schema(schemas_loaded, Get(outcome.input, "category"),
                         Get(outcome.input, "type")) = <<NONE, NONE>>
           => SchemaValidatorOutcome.errs = _validate_against_core(schemas_loaded,
                                                                   outcome.input)

\* a report whose type is a JSON number: the validator's file lookup calls
\* .replace on the number and the AttributeError leaves validate
SchemaValidatorThrows ==
    /\ SchemaValidatorCalled
    /\ outcome.input.fields["category"] = "messaging"
    /\ outcome.input.fields["type"] = NUM
    /\ SchemaValidatorOutcome.exc = "AttributeError"
    /\ outcome.out.kind = "raised"

(***************************************************************************)
(* XARFGenerator.generate_report (xarf/generator.py) and a fourth caller,  *)
(* who generates a report and hands it to XARFParser.validate.             *)
(***************************************************************************)
\* the additional_fields arguments of the model: none, the category's own
\* fields as the valid reports of the tests carry them, the protocol alone,
\* or keys that the base report has too
AdditionalFields(choice, category) ==
    [k \in Keys |->
       CASE choice = "template" /\ category \in Bases
              /\ k \in {"protocol", "smtp_from", "destination_ip", "url",
                        "compromise_evidence"} -> Template(category)[k]
         [] choice = "protocol" /\ k = "protocol" -> "smtp"
         [] choice = "core keys" /\ k = "xarf_version" -> "3.0.0"
         [] choice = "core keys" /\ k = "category" -> "bogus"
         [] choice = "core keys" /\ k = "reporter" -> "{org,contact}"
         [] OTHER -> ABSENT]

\* the keyword arguments of a generate_report call, as a dict
Arguments(category, report_type, source_identifier, reporter, sender, evidence_source) ==
    [kind |-> "object", base |-> "arguments",
     fields |-> [k \in Keys |->
                   CASE k = "category" -> category
                     [] k = "type" -> report_type
                     [] k = "source_identifier" -> source_identifier
                     [] k = "reporter" -> reporter
                     [] k = "sender" -> sender
                     [] k = "evidence_source" -> evidence_source
                     [] OTHER -> ABSENT]]

\* generate_report: [exc, data]
generate_report(loaded, category, report_type, source_identifier, reporter, sender, evidence_source, additional) ==
    LET contact_bad(contact) ==
            \/ contact = NONE
            \/ \E f \in Range(get_contact_required_fields(loaded)) :
                  f \notin ContactKeys(contact)
        report ==
            [k \in Keys |->
               CASE additional[k] # ABSENT -> additional[k]
                 [] k = "xarf_version" -> "4.0.0"
                 [] k = "report_id" -> UUID4
                 [] k = "timestamp" -> UTCNOW
                 [] k = "reporter" -> FullContact
                 [] k = "sender" -> FullContact
                 [] k = "source_identifier" -> source_identifier
                 [] k = "category" -> category
                 [] k = "type" -> report_type
                 [] k = "evidence_source" /\ Truthy(evidence_source) -> evidence_source
                 [] OTHER -> ABSENT]
    IN IF \/ ~Truthy(source_identifier)
          \/ contact_bad(reporter)
          \/ contact_bad(sender)
          \/ category \notin get_categories(loaded)
          \/ report_type \notin get_types_for_category(loaded, category)
          \/ /\ evidence_source # NONE
             /\ get_evidence_sources(loaded) # {}
             /\ evidence_source \notin get_evidence_sources(loaded)
       THEN [exc |-> "XARFError", data |-> NoDocument]
       ELSE [exc |-> NoExc,
             data |-> [kind |-> "object", base |-> "generated", fields |-> report]]

GeneratorInit ==
    /\ strict = FALSE
    /\ use_schema_validation \in BOOLEAN
    /\ schemas_loaded = TRUE
    /\ errors = <<>>
    /\ _validation_errors = <<>>
    /\ _validation_warnings = <<>>
    /\ _validation_info = <<>>
    /\ _type_schemas = {}
    /\ doc = NoDocument
    /\ edits = 0
    /\ outcome = Called("none", FALSE, FALSE, NoDocument, "none", NoOutcome)
    /\ deprecations = 0
    /\ caught = NoException
    /\ RegistryAtImport

\* generator.generate_report(...) as the caller's first step: the caller
\* keeps the report it returns
GenerateReport(category, report_type, source_identifier, reporter, evidence_source, choice) ==
    LET r == generate_report(schemas_loaded, category, report_type, source_identifier,
                             reporter, FullContact, evidence_source,
                             AdditionalFields(choice, category))
    IN /\ outcome.op = "none"
       /\ doc' = r.data
       /\ outcome' = Called("generate_report", FALSE, FALSE,
                            Arguments(category, report_type, source_identifier,
                                      reporter, FullContact, evidence_source),
                            "none",
                            IF r.exc # NoExc THEN Raised(r.exc, <<>>)
                            ELSE Report("dict"))
       /\ UNCHANGED <<strict, use_schema_validation, schemas_loaded, errors,
                      _validation_errors, _validation_warnings, _validation_info,
                      _type_schemas, edits, deprecations, caught>>
       /\ RegistryUnchanged

\* parser.validate(report) on the generated report
ValidateGenerated(strict_arg, show_missing_optional) ==
    /\ doc.base = "generated"
    /\ Validate(strict_arg, show_missing_optional)

GeneratorNext ==
    \/ \E category \in {"messaging", "connection", "content", "infrastructure", "bogus"} :
       \E report_type \in {"spam", "bulk_messaging", "ddos", "phishing", "botnet"} :
       \E source_identifier \in {"192.0.2.1", EMPTY} :
       \E reporter \in {FullContact, "{org,contact}", NONE} :
       \E evidence_source \in {NONE, "spamtrap", "weird"} :
       \E choice \in {"none", "template", "protocol", "core keys"} :
          GenerateReport(category, report_type, source_identifier, reporter,
                         evidence_source, choice)
    \/ \E strict_arg \in BOOLEAN : \E show_missing_optional \in BOOLEAN :
          ValidateGenerated(strict_arg, show_missing_optional)

GeneratorSpec == GeneratorInit /\ [][GeneratorNext]_vars

\* C18: a report generate_report returns for a category/type pair the
\* registry reports as valid makes validate return valid = true.
GeneratedReportValidates ==
    (outcome.op = "validate" /\ outcome.input.base = "generated" /\ ~outcome.strict_arg)
    => Returned /\ outcome.out.valid

\* a messaging/spam report generated with protocol smtp as its only
\* additional field: validate reports the missing smtp_from
GeneratedReportInvalid ==
    /\ outcome.op = "validate"
    /\ ~outcome.strict_arg
    /\ outcome.input.base = "generated"
    /\ outcome.input.fields["category"] = "messaging"
    /\ outcome.input.fields["type"] = "spam"
    /\ outcome.input.fields["protocol"] = "smtp"
    /\ Returned
    /\ ~outcome.out.valid
    /\ HasField(outcome.out.errors, "smtp_from")

(***************************************************************************)
(* Versions of the wire format.                                            *)
(***************************************************************************)
\* the input of the last call with its version put back to 4.0.0
WithVersion400 == [outcome.input EXCEPT !.fields["xarf_version"] = "4.0.0"]

\* C19: for a document whose xarf_version matches ^4\.[0-9]+\.[0-9]+$ and
\* that is otherwise well formed, the pre-check of parse records no version
\* error and strict parse does not raise; a version error is recorded only
\* for strings that do not match the pattern.
EveryV4VersionAccepted ==
    (Parsed /\ Has(outcome.input, "xarf_version"))
    => /\ (MatchesVersionPattern(outcome.input.fields["xarf_version"])
             /\ StructurallySound(WithVersion400))
          => /\ ~HasText(get_errors, "Unsupported XARF version")
             /\ strict => outcome.out.kind = "report"
       /\ HasText(get_errors, "Unsupported XARF version")
          => ~MatchesVersionPattern(outcome.input.fields["xarf_version"])

\* strict parse of the valid messaging report with xarf_version 4.1.0 raises
\* XARFValidationError with the version error
Version410Rejected ==
    /\ Parsed
    /\ strict
    /\ outcome.input.fields = [Template("messaging") EXCEPT !["xarf_version"] = "4.1.0"]
    /\ outcome.out.exc = "XARFValidationError"
    /\ HasText(outcome.out.exc_errors, "Unsupported XARF version")

(***************************************************************************)
(* get_errors() after validate.                                            *)
(***************************************************************************)
\* C20: after validate(d) finds d invalid, get_errors() on the same parser
\* returns a non-empty list with a message for each error of the result.
GetErrorsAfterValidate ==
    (Returned /\ ~outcome.out.valid)
    => /\ get_errors # <<>>
       /\ Len(get_errors) >= Len(outcome.out.errors)

\* validate finds the report without report_id invalid, and get_errors()
\* returns the empty list
GetErrorsEmptyAfterValidate ==
    /\ Returned
    /\ outcome.input.fields = [Template("messaging") EXCEPT !["report_id"] = ABSENT]
    /\ ~outcome.out.valid
    /\ HasField(outcome.out.errors, "report_id")
    /\ get_errors = <<>>

(***************************************************************************)
(* The errors of a ValidationResult: duplicates and order.                 *)
(***************************************************************************)
SchemaTexts ==
    {"Expected type 'object', got", "Expected type 'string', got",
     "Missing required field(s)", "Value does not match pattern",
     "Value must be one of"}

WarningTexts ==
    {"Unknown evidence_source", "destination_ip recommended for connection reports",
     "url recommended for content reports",
     "Unknown field is not defined in the XARF schema"}

\* the step of validate an entry of errors comes from: 1 the schema pass,
\* 2 the hand-written checks, 3 the promotion of a warning
ErrorPass(e) ==
    CASE e.message[1] \in SchemaTexts -> 1
      [] e.message[1] \in WarningTexts -> 3
      [] OTHER -> 2

\* C21: in every ValidationResult validate returns, no two errors have the
\* same (field, message) pair, and the errors stand in the order of the
\* passes: schema errors, then hand-written errors, then (strict only)
\* promoted warnings.
ErrorsUniqueAndOrdered ==
    Returned =>
      \A i \in 1..Len(outcome.out.errors) :
        /\ ~outcome.strict_arg => ErrorPass(outcome.out.errors[i]) # 3
        /\ \A j \in (i + 1)..Len(outcome.out.errors) :
              /\ <<outcome.out.errors[i].field, outcome.out.errors[i].message>>
                   # <<outcome.out.errors[j].field, outcome.out.errors[j].message>>
              /\ ErrorPass(outcome.out.errors[i]) <= ErrorPass(outcome.out.errors[j])

\* a strict validate of a ddos report without destination_ip and protocol:
\* the schema pass reports the required list twice, one entry is kept, and
\* the destination_ip warning is promoted behind it
ErrorsUniqueAndOrderedWitness ==
    /\ Returned
    /\ outcome.strict_arg
    /\ use_schema_validation
    /\ outcome.input.fields =
         [Template("connection") EXCEPT !["destination_ip"] = ABSENT, !["protocol"] = ABSENT]
    /\ Len(outcome.out.errors) = 2
    /\ ErrorPass(outcome.out.errors[1]) = 1
    /\ ErrorPass(outcome.out.errors[2]) = 3

(***************************************************************************)
(* The smtp_from rule of messaging reports.                                *)
(***************************************************************************)
\* the input of the last call is a messaging document sent over smtp that
\* has no smtp_from, or an empty one
SmtpWithoutFrom ==
    /\ IsObject(outcome.input)
    /\ outcome.input.fields["category"] = "messaging"
    /\ outcome.input.fields["protocol"] = "smtp"
    /\ ~Truthy(Get(outcome.input, "smtp_from"))

\* C22: for every messaging document with protocol "smtp" and no (or an
\* empty) smtp_from, validate returns an error whose field is smtp_from,
\* whatever the other fields are and whether or not the schema pass runs.
SmtpFromAlwaysRequired ==
    (outcome.op = "validate" /\ SmtpWithoutFrom)
    => (Returned /\ HasField(outcome.out.errors, "smtp_from"))

\* validate of the spam report without type and without smtp_from returns a
\* result that has no error for smtp_from
SmtpFromErrorLostWithoutType ==
    /\ Returned
    /\ outcome.input.fields =
         [Template("messaging") EXCEPT !["type"] = ABSENT, !["smtp_from"] = ABSENT]
    /\ ~HasField(outcome.out.errors, "smtp_from")
    /\ HasField(outcome.out.errors, "type")

(***************************************************************************)
(* show_missing_optional.                                                  *)
(***************************************************************************)
\* the type schema that applies to document d, or <<NONE, NONE>>
TypeSchemaOf(d) ==
    IF Truthy(Get(d, "category")) /\ Truthy(Get(d, "type"))
    THEN get_type_schema(schemas_loaded, Get(d, "category"), Get(d, "type"))
    ELSE <<NONE, NONE>>

\* the optional fields of document d: the core properties that are not
\* required and the properties its type schema declares without requiring
\* them
OptionalFieldsOf(d) ==
    (Range(CoreOptional) \ Range(CoreRequired))
    \cup (IF TypeSchemaOf(d) = <<NONE, NONE>> THEN {}
          ELSE Range(TypeSchema(TypeSchemaOf(d)).props)
                 \ (Range(TypeSchema(TypeSchemaOf(d)).required)
                    \cup Range(CoreRequired) \cup Range(CoreOptional)))

RecommendedFieldsOf(d) ==
    CoreRecommended
    \cup (IF TypeSchemaOf(d) = <<NONE, NONE>> THEN {}
          ELSE TypeSchema(TypeSchemaOf(d)).recommended)

\* the last validate call with the flag show_missing_optional the other way
WithFlagFlipped ==
    FreshValidate(outcome.input, outcome.strict_arg, ~outcome.show_missing_optional)

RecursionLimit == 4

TYPE_FILE == "messaging-spam.json"
BASE_FILE == "messaging-base.json"
COMMON_FILE == "common-base.json"

CORE_REF == "../xarf-core.json"
BASE_REF == "./messaging-base.json"
COMMON_REF == "./common-base.json"

Ref(ref) == [ref |-> ref, properties |-> <<>>]
Inline(properties) == [ref |-> NONE, properties |-> properties]
Refs(ref) == IF ref = NONE THEN <<>> ELSE <<Ref(ref)>>

\* "-base.json" in ref
IsBaseRef(ref) == ref \in {BASE_REF, COMMON_REF}

\* the file name left when the leading ./ and ../ are removed
Filename(ref) ==
    CASE ref = BASE_REF -> BASE_FILE
      [] ref = COMMON_REF -> COMMON_FILE
      [] ref = CORE_REF -> "xarf-core.json"

\* the bundles of the model: the type schema refers to the core schema, to
\* type_ref and holds an inline branch; each base fragment may refer to a
\* file too; messaging-base.json may be missing
TypeFiles(type_ref, base_ref, common_ref, base_present) ==
    [f \in {TYPE_FILE, COMMON_FILE} \cup (IF base_present THEN {BASE_FILE} ELSE {}) |->
       CASE f = TYPE_FILE ->
              [properties |-> <<"category", "type">>,
               allOf |-> <<Ref(CORE_REF)>> \o Refs(type_ref)
                         \o <<Inline(<<"category", "type", "protocol", "smtp_from",
                                       "description", "subject">>)>>]
         [] f = BASE_FILE ->
              [properties |-> <<"protocol", "smtp_to", "tags">>, allOf |-> Refs(base_ref)]
         [] f = COMMON_FILE ->
              [properties |-> <<"subject", "message_id">>, allOf |-> Refs(common_ref)]]

Bundles ==
    {TypeFiles(type_ref, base_ref, common_ref, base_present) :
       type_ref \in {NONE, BASE_REF, COMMON_REF},
       base_ref \in {NONE, BASE_REF, COMMON_REF, CORE_REF},
       common_ref \in {NONE, BASE_REF, COMMON_REF},
       base_present \in BOOLEAN}

\* the names appended to result for the properties of one schema
_extract_direct_properties(properties, core_fields, result) ==
    LET fresh == SelectSeqNotIn(properties,
                                core_fields \cup {"category", "type"} \cup Range(result))
    IN result \o fresh

\* the file a $ref names, or NONE when it cannot be loaded
_load_base_schema(files, ref) ==
    IF Filename(ref) \in DOMAIN files THEN Filename(ref) ELSE NONE

\* [exc, result]: the walk of one schema at the given depth of file
\* references, and the walk of its allOf branches
RECURSIVE _extract_fields_from_schema(_, _, _, _, _)
RECURSIVE _extract_from_all_of(_, _, _, _, _)
_extract_fields_from_schema(files, schema, core_fields, acc, depth) ==
    IF acc.exc # NoExc THEN acc
    ELSE IF depth > RecursionLimit THEN [acc EXCEPT !.exc = "RecursionError"]
    ELSE _extract_from_all_of(files, schema.allOf, core_fields,
            [acc EXCEPT !.result =
                _extract_direct_properties(schema.properties, core_fields, @)],
            depth)

_extract_from_all_of(files, all_of, core_fields, acc, depth) ==
    IF all_of = <<>> \/ acc.exc # NoExc THEN acc
    ELSE LET sub_schema == Head(all_of)
             base_schema == _load_base_schema(files, sub_schema.ref)
             done ==
                 IF sub_schema.ref = NONE
                 THEN [acc EXCEPT !.result =
                         _extract_direct_properties(sub_schema.properties, core_fields, @)]
                 ELSE IF ~IsBaseRef(sub_schema.ref) \/ base_schema = NONE THEN acc
                 ELSE _extract_fields_from_schema(files, files[base_schema], core_fields,
                                                  acc, depth + 1)
         IN _extract_from_all_of(files, Tail(all_of), core_fields, done, depth)

\* get_category_fields on the files of a bundle: [exc, result]
CategoryFieldsIn(files, loaded, category, type_name) ==
    IF ~loaded \/ category # "messaging" \/ Hyphenate(type_name) # "spam"
       \/ TYPE_FILE \notin DOMAIN files
    THEN [exc |-> NoExc, result |-> <<>>]
    ELSE _extract_fields_from_schema(files, files[TYPE_FILE],
                                     get_core_property_names(loaded),
                                     [exc |-> NoExc, result |-> <<>>], 0)

FieldsInit ==
    /\ ParserIdle
    /\ bundle = "found"
    /\ schemas_loaded = _load_schemas(bundle)
    /\ _instance = 1
    /\ constructed = 1
    /\ held = 1
    /\ caches = NoCaches
    /\ call = NoCall
    /\ threads = [t \in Threads |-> IdleThread]
    /\ type_files \in Bundles

\* registry.get_category_fields("messaging", type_name)
GetCategoryFields(type_name) ==
    LET r == CategoryFieldsIn(type_files, schemas_loaded, QueryCategory, type_name)
    IN /\ call' = [NoCall EXCEPT
                     !.op = "get_category_fields",
                     !.result = IF r.exc # NoExc THEN Value("raised", r.exc)
                                ELSE Value("list", r.result),
                     !.prev = held]
       /\ UNCHANGED <<type_files, bundle, _instance, constructed, held, schemas_loaded,
                      caches, threads>>
       /\ ParserUntouched

FieldsNext ==
    \E type_name \in {QueryType, "bulk_messaging"} : GetCategoryFields(type_name)

FieldsSpec == FieldsInit /\ [][FieldsNext]_vars

\* the properties of the type schema's own branches and of the base
\* fragments it refers to directly
OneLevelFields(files) ==
    LET branches == files[TYPE_FILE].allOf
        direct(i) ==
            IF branches[i].ref = NONE THEN Range(branches[i].properties)
            ELSE IF IsBaseRef(branches[i].ref)
                    /\ _load_base_schema(files, branches[i].ref) # NONE
                 THEN Range(files[_load_base_schema(files, branches[i].ref)].properties)
            ELSE {}
    IN Range(files[TYPE_FILE].properties)
       \cup UNION {direct(i) : i \in 1..Len(branches)}

\* C24: get_category_fields ends with a list for every bundle; the list
\* holds only fields of the type schema and of the base fragments the type
\* schema refers to (a reference inside a base fragment is not followed), no
\* name twice, no core property name, and neither category nor type.
CategoryFieldsOneLevel ==
    call.op = "get_category_fields" =>
      /\ call.result.kind = "list"
      /\ Range(call.result.value) \subseteq OneLevelFields(type_files)
      /\ \A i \in 1..Len(call.result.value) : \A j \in (i + 1)..Len(call.result.value) :
            call.result.value[i] # call.result.value[j]
      /\ Range(call.result.value)
           \cap (get_core_property_names(schemas_loaded) \cup {"category", "type"}) = {}

\* the type schema refers to messaging-base.json, which refers to itself:
\* the walk does not end with a list
BaseReferringToItselfRaises ==
    /\ call.op = "get_category_fields"
    /\ type_files = TypeFiles(BASE_REF, BASE_REF, NONE, TRUE)
    /\ call.result = Value("raised", "RecursionError")

(***************************************************************************)
(* The evidence source of a converted legacy report.                       *)
(***************************************************************************)
\* the DetectionMethod text the converter finds in document d, or NONE
DetectionMethodOf(d) ==
    IF /\ d.fields["Report"] = V3DICT
       /\ d.fields["AdditionalInfo"] = V3DICT
       /\ d.fields["DetectionMethod"] # ABSENT
    THEN d.fields["DetectionMethod"]
    ELSE NONE

\* the keywords in the order of their precedence, and their buckets
KeywordPrecedence == <<"spamtrap", "honeypot", "user", "manual", "scan", "vuln">>

Bucket(keyword) ==
    CASE keyword = "spamtrap" -> "spamtrap"
      [] keyword = "honeypot" -> "honeypot"
      [] keyword \in {"user", "manual"} -> "user_report"
      [] keyword = "scan" -> "automated_scan"
      [] keyword = "vuln" -> "vulnerability_scan"

\* the keywords found in a text, letter case ignored, by precedence
KeywordsFound(text) ==
    SelectSeq(KeywordPrecedence, LAMBDA keyword : keyword \in KeywordsIn(Lower(text)))

\* the legacy document of the last parse was converted
ConvertedLegacy ==
    /\ Parsed
    /\ outcome.input.kind = "object"
    /\ is_v3_report(outcome.input)
    /\ convert_v3_to_v4(outcome.input).exc = NoExc

\* C25: the evidence source of a converted legacy report is determined by
\* the DetectionMethod text alone: it is the bucket of the first keyword, in
\* the order spamtrap, honeypot, user/manual, scan, vuln, that the text
\* contains with letter case ignored, and automated_scan for an absent, empty
\* or unmatched text.
EvidenceSourceByPrecedence ==
    ConvertedLegacy =>
      convert_v3_to_v4(outcome.input).data.fields["evidence_source"] =
        IF ~Truthy(DetectionMethodOf(outcome.input))
              \/ KeywordsFound(DetectionMethodOf(outcome.input)) = <<>>
        THEN "automated_scan"
        ELSE Bucket(Head(KeywordsFound(DetectionMethodOf(outcome.input))))

\* "Vulnerability Scan" holds both scan and vuln and is filed as
\* automated_scan
EvidenceSourceByPrecedenceWitness ==
    /\ ConvertedLegacy
    /\ DetectionMethodOf(outcome.input) = "Vulnerability Scan"
    /\ convert_v3_to_v4(outcome.input).data.fields["evidence_source"] = "automated_scan"

(***************************************************************************)
(* The error list of a caught XARFValidationError.                         *)
(***************************************************************************)
\* the errors attribute of the exception the caller holds, as it reads now:
\* parse raised it with self.errors, the parser's own list
CaughtErrors == IF caught.shares_list THEN errors ELSE caught.raised_with

\* C26: the errors attribute of an XARFValidationError raised by a strict
\* parse keeps the content it was raised with, whatever the parser is asked
\* to do afterwards.
ExceptionErrorsStable == caught.held => CaughtErrors = caught.raised_with

\* the caller holds the exception of a failed strict parse, has validated a
\* valid report since, and the exception's list is empty
ExceptionErrorsEmptied ==
    /\ caught.held
    /\ caught.raised_with # <<>>
    /\ Returned
    /\ outcome.out.valid
    /\ CaughtErrors = <<>>

(***************************************************************************)
(* The module-level registry and the singleton.                            *)
(***************************************************************************)
\* C27: whatever get_instance() and reset_instance() calls were made, the
\* registry the parser and the generator consult (the module-level
\* schema_registry) is the instance SchemaRegistry.get_instance() returns
\* now.
ModuleRegistryIsTheSingleton ==
    get_instance(_instance, constructed)._instance = schema_registry

\* after a reset, get_instance() has built the second registry and returned
\* it, while the module-level name still refers to the first
ModuleRegistryLeftBehind ==
    /\ call.op = "get_instance"
    /\ call.after_reset
    /\ call.built
    /\ held = 2
    /\ _instance = 2
    /\ schema_registry = 1

(***************************************************************************)
(* A seventh caller: one that changes in place the values the registry's   *)
(* getters returned.  Each getter returns the object it keeps in its       *)
(* cache attribute, not a copy.                                            *)
(***************************************************************************)
\* the getters of derived vocabularies, and the checks made through them
VocabularyGetters ==
    {"get_categories", "get_types_for_category", "get_all_types",
     "get_evidence_sources", "get_severities", "get_required_fields",
     "get_contact_required_fields"}

VocabularyQueries ==
    VocabularyGetters \cup
      {"is_valid_category", "is_valid_type", "is_valid_evidence_source",
       "is_valid_severity"}

\* a value no vocabulary holds
Intruder == "intruder"

\* what the caller does to the returned object: .add(Intruder) (for the dict
\* of get_all_types, returned[Intruder] = {Intruder}) or .clear()
Mutations == {"add", "clear"}

\* the cache attribute whose object getter q returned, "none" for a fresh
\* object: get_types_for_category returns the dict's set of the category or
\* a new set(), get_all_types returns `cache or {}`
ReturnedCache(q, c) ==
    LET types == c["_types_per_category_cache"]
    IN CASE q = "get_categories" -> "_categories_cache"
         [] q = "get_types_for_category" ->
              IF types.kind = "dict" /\ QueryCategory \in DOMAIN types.value
              THEN "_types_per_category_cache" ELSE "none"
         [] q = "get_all_types" ->
              IF types.kind = "dict" /\ DOMAIN types.value # {}
              THEN "_types_per_category_cache" ELSE "none"
         [] q = "get_evidence_sources" -> "_evidence_sources_cache"
         [] q = "get_severities" -> "_severities_cache"
         [] q = "get_required_fields" -> "_required_fields_cache"
         [] q = "get_contact_required_fields" -> "_contact_required_fields_cache"
         [] OTHER -> "none"

\* the cached object after the caller changed the object getter q returned
MutatedValue(q, m, v) ==
    CASE q = "get_types_for_category" ->
           Value("dict", [v.value EXCEPT ![QueryCategory] =
                            IF m = "add" THEN @ \cup {Intruder} ELSE {}])
      [] q = "get_all_types" ->
           IF m = "add"
           THEN Value("dict", [k \in DOMAIN v.value \cup {Intruder} |->
                                 IF k \in DOMAIN v.value THEN v.value[k] ELSE {Intruder}])
           ELSE Value("dict", TypesDict({}))
      [] OTHER ->
           Value("set", IF m = "add" THEN v.value \cup {Intruder} ELSE {})

\* the caller changes in place the value its last call returned
MutateReturned(m) ==
    LET name == ReturnedCache(call.op, caches)
    IN /\ held = _instance
       /\ call.op \in VocabularyGetters
       /\ name # "none"
       /\ caches' = [caches EXCEPT ![name] = MutatedValue(call.op, m, @)]
       /\ call' = [op |-> "mutate", result |-> NoValue, prev |-> held,
                   after_reset |-> FALSE, pending_reset |-> call.pending_reset,
                   built |-> FALSE]
       /\ UNCHANGED <<type_files, bundle, _instance, constructed, held, schemas_loaded,
                      threads>>
       /\ ParserUntouched

MutationNext ==
    \/ GetInstance
    \/ \E q \in VocabularyQueries : Query(q)
    \/ \E m \in Mutations : MutateReturned(m)

MutationSpec == RegistryInit /\ [][MutationNext]_vars

\* C28: what a caller does to a value a vocabulary getter returned changes
\* neither what the getters return later nor which values the registry
\* accepts: every vocabulary query answers as a registry with empty caches,
\* built from the same bundle, would.
VocabulariesImmutable ==
    \A q \in VocabularyQueries :
       registry_query(q, schemas_loaded, caches).result
         = registry_query(q, schemas_loaded, NoCaches).result

\* with the bundle loaded, the registry rejects the category "messaging"
\* after a caller cleared the set get_categories() had returned
CategoryRejectedAfterClear ==
    /\ schemas_loaded
    /\ call.op = "is_valid_category"
    /\ call.result = Value("bool", FALSE)
    /\ caches["_categories_cache"] = Value("set", {})

(***************************************************************************)
(* The tags of a converted legacy report.                                  *)
(***************************************************************************)
\* the tags of the document the converter made of the last call's input
ConvertedTags == Range(convert_v3_to_v4(outcome.input).tags)

\* the input of the last parse is a v3 report of class Infrastructure that
\* the converter accepts
LegacyInfrastructureReport ==
    /\ Parsed
    /\ HasLegacyFingerprint
    /\ convert_v3_to_v4(outcome.input).exc = NoExc
    /\ convert_v3_to_v4(outcome.input).data.fields["category"] = "infrastructure"

\* C29: for a legacy infrastructure report carrying BotnetName or
\* MalwareFamily, the tags of the converted document hold the botnet:<name>
\* and malware:<family> tags together with the legacy:category:<class> and
\* legacy:type:<type> tags.
LegacyTagsNeverLost ==
    LegacyInfrastructureReport =>
      LET f == outcome.input.fields
      IN /\ f["BotnetName"] # ABSENT => Tag("botnet", f["BotnetName"]) \in ConvertedTags
         /\ f["MalwareFamily"] # ABSENT
              => Tag("malware", f["MalwareFamily"]) \in ConvertedTags
         /\ (f["BotnetName"] # ABSENT \/ f["MalwareFamily"] # ABSENT)
              => /\ Tag("legacy:category", f["ReportClass"]) \in ConvertedTags
                 /\ Truthy(f["ReportType"])
                      => Tag("legacy:type", f["ReportType"]) \in ConvertedTags

\* the infrastructure report naming the botnet Mirai is converted to a
\* document whose tags are the two legacy tags alone
BotnetTagOverwritten ==
    /\ LegacyInfrastructureReport
    /\ outcome.input = LegacyDocument("v3-botnet")
    /\ convert_v3_to_v4(outcome.input).tags
         = <<Tag("legacy:category", "Infrastructure"), Tag("legacy:type", "botnet")>>

(***************************************************************************)
(* What a generated report carries.                                        *)
(***************************************************************************)
\* the last call was generate_report; its keyword arguments
Generated == outcome.op = "generate_report"
ArgumentOf(k) == outcome.input.fields[k]

\* a validation step of generate_report refuses the arguments of the last call
ArgumentsRefused ==
    \/ ~Truthy(ArgumentOf("source_identifier"))
    \/ ArgumentOf("reporter") # FullContact
    \/ ArgumentOf("sender") # FullContact
    \/ ArgumentOf("category") \notin get_categories(schemas_loaded)
    \/ ArgumentOf("type")
         \notin get_types_for_category(schemas_loaded, ArgumentOf("category"))
    \/ /\ ArgumentOf("evidence_source") # NONE
       /\ ArgumentOf("evidence_source") \notin get_evidence_sources(schemas_loaded)

\* C30: a report generate_report returns has xarf_version "4.0.0", the
\* category and type that were passed and validated (a pair the registry
\* holds), and a reporter and a sender with org, contact and domain,
\* whatever additional_fields was; when a validation step fails the call
\* raises XARFError and returns no report.
GeneratedCarriesValidatedValues ==
    Generated =>
      IF ArgumentsRefused
      THEN outcome.out.kind = "raised" /\ outcome.out.exc = "XARFError" /\ doc = NoDocument
      ELSE /\ outcome.out.kind = "report"
           /\ doc.fields["xarf_version"] = "4.0.0"
           /\ doc.fields["category"] = ArgumentOf("category")
           /\ doc.fields["type"] = ArgumentOf("type")
           /\ doc.fields["category"] \in get_categories(schemas_loaded)
           /\ doc.fields["type"]
                \in get_types_for_category(schemas_loaded, doc.fields["category"])
           /\ doc.fields["reporter"] = FullContact
           /\ doc.fields["sender"] = FullContact

\* generate_report validated messaging/spam and a full reporter, and returned
\* a report of version 3.0.0 and category bogus whose reporter has no domain
GeneratedOverriddenByAdditionalFields ==
    /\ Generated
    /\ ~ArgumentsRefused
    /\ ArgumentOf("category") = "messaging"
    /\ ArgumentOf("type") = "spam"
    /\ outcome.out.kind = "report"
    /\ doc.fields["xarf_version"] = "3.0.0"
    /\ doc.fields["category"] = "bogus"
    /\ doc.fields["reporter"] = "{org,contact}"

====
